---- MODULE Spec2Model ----
(***************************************************************************)
(* Nucor Runner (game.js): the difficulty-scaling entity lifecycle engine. *)
(*                                                                         *)
(* Numbers.  The program computes in floating point; the model computes    *)
(* in fixed point:                                                         *)
(*   lengths and positions   1/1000 pixel            (PX  = 1000)          *)
(*   speeds                  1/1000 pixel per frame                        *)
(*   distance                1/10000 metre, so that `distance +=           *)
(*                           gameSpeed / 10` is exactly `distance +        *)
(*                           gameSpeed` in model units                     *)
(*   angles                  1/100000 radian                               *)
(*   sin, log10 results      1/1000                                        *)
(*   particle alpha          1/PARTICLE_LIFETIME, so that                  *)
(*                           (life / PARTICLE_LIFETIME) * 255 is exactly   *)
(*                           life * 255 in model units                     *)
(* Drawing-only data (rotation, jumpAnimation, colours, particle position, *)
(* velocity and size, clouds, mountains, ground tiles, lastJumpTime) is    *)
(* read by no guard of the program and is not part of the state.           *)
(***************************************************************************)
EXTENDS Integers, Sequences, FiniteSets

\* ------------------------------------------------------------------------
\* Game configuration (game.js lines 35-70), in model units
\* ------------------------------------------------------------------------
PX == 1000

PLAYER_SIZE == 60000
OBSTACLE_SIZE == 55000
JOIST_WIDTH == 70000
JOIST_HEIGHT == 35000

GRAVITY == 600
JUMP_FORCE == -13000
INITIAL_GAME_SPEED == 5000

MIN_OBSTACLE_SPAWN_RATE == 40
MIN_JOIST_SPAWN_RATE == 60
BASE_OBSTACLE_SPAWN_RATE == 120
BASE_JOIST_SPAWN_RATE == 160
SPAWN_RATE_LOG_BASE == 20
SPEED_LOG_BASE == 3

VERTICAL_MOVE_START_DISTANCE == 10000000
VERTICAL_MOVE_RANGE == 108000
VERTICAL_MOVE_SPEED == 4000

COLLECT_PARTICLES == 15
EXPLOSION_PARTICLES == 30
PARTICLE_LIFETIME == 40
EXPLOSION_LIFETIME == 60

\* ------------------------------------------------------------------------
\* Bounds of the model
\* ------------------------------------------------------------------------
\* frames drawn on the game-over screen before the restart press
MaxOverFrames == 2
\* press inputs during play, restarts and resizes per behaviour
MaxJumps == 2
MaxResets == 1
MaxResizes == 1
\* largest rateReduction, in frames, at which the interval formula is sampled
MaxReductionFrames == 130
\* largest coordinate of the boxes rectOverlap is tabulated on
MaxCoord == 3

\* ------------------------------------------------------------------------
\* Fixed-point arithmetic
\* ------------------------------------------------------------------------
Max(a, b) == IF a >= b THEN a ELSE b
Min(a, b) == IF a <= b THEN a ELSE b

\* a / b rounded toward zero (b > 0)
Div(a, b) == IF a >= 0 THEN a \div b ELSE -((-a) \div b)

\* Math.log10 of x >= 1, argument in 1/LOG_ONE, result in 1/1000:
\* integer part by division, ten fraction bits by repeated squaring.
LOG_ONE == 4096
LOG_BITS == 10

RECURSIVE Log10Frac(_, _, _)
Log10Frac(m, k, acc) ==
  IF k > LOG_BITS THEN acc
  ELSE LET sq == (m * m) \div LOG_ONE
       IN  IF sq >= 10 * LOG_ONE
           THEN Log10Frac(sq \div 10, k + 1, acc + (1024 \div (2 ^ k)))
           ELSE Log10Frac(sq, k + 1, acc)

RECURSIVE Log10(_)
Log10(x) ==
  IF x >= 10 * LOG_ONE THEN 1000 + Log10(x \div 10)
  ELSE (Log10Frac(x, 1, 0) * 1000) \div 1024

\* 1 + distance * scale, distance in 1/10000 m, scalePerMille = scale * 1000
LogArg(dist, scalePerMille) ==
  LOG_ONE + (((dist * scalePerMille) \div 1000) * LOG_ONE) \div 10000

\* sin of an angle >= 0 in 1/100000 rad, result in 1/1000
\* (Bhaskara's rational approximation on each half period).
TWO_PI == 628319
PI_MRAD == 3142
HALF_PI == 157080

SinHalf(x) ==
  LET q == (x * (PI_MRAD - x)) \div 1000
  IN  (16000 * q) \div (49348 - 4 * q)

Sin(angle) ==
  LET a == (angle % TWO_PI) \div 100
  IN  IF a <= PI_MRAD THEN SinHalf(a) ELSE -SinHalf(Min(a - PI_MRAD, PI_MRAD))

\* ------------------------------------------------------------------------
\* State (game.js lines 76-93, plus the host's frameCount, canvas size and
\* localStorage entry)
\* ------------------------------------------------------------------------
VARIABLES
  gameStarted,      \* past the start screen
  gameOver,         \* terminal flag
  frameCount,       \* p5's frame counter, assigned by resetGame
  score, highScore, distance, gameSpeed,
  width, groundY,   \* canvas width; ground line = height * GROUND_OFFSET
  player,           \* [x, y, vy, onGround]
  isJumping,        \* jump input held
  obstacles, joists,            \* live entity arrays
  activeParticles, particlePool,
  stored,           \* localStorage["nucorGameHighScore"]: digits, <<>> if absent
  created,          \* particle objects constructed so far (object identity)
  mid,              \* what checkCollisions found and started from, last frame
  burst,            \* the last particle burst and the advances since
  used,             \* inputs and idle frames consumed (model bounds)
  readFailed,       \* whether setup()'s read of the high score threw
  lastSpawn         \* frame of this run's last obstacle spawn, gap to the one before

vars == <<gameStarted, gameOver, frameCount, score, highScore, distance,
          gameSpeed, width, groundY, player, isJumping, obstacles, joists,
          activeParticles, particlePool, stored, created, mid, burst, used,
          readFailed, lastSpawn>>


\* ------------------------------------------------------------------------
\* Inputs drawn from small sets
\* ------------------------------------------------------------------------
\* canvas sizes <<windowWidth, windowHeight>> the host can report (pixels)
Sizes == {<<100, 300>>, <<120, 350>>}
InitialSize == <<100, 300>>

GroundOf(h) == (h * PX * 8) \div 10

\* ------------------------------------------------------------------------
\* localStorage values are strings: String(n) and parseInt
\* ------------------------------------------------------------------------
RECURSIVE NumToString(_)
NumToString(n) == IF n < 10 THEN <<n>> ELSE Append(NumToString(n \div 10), n % 10)

RECURSIVE ParseInt(_)
ParseInt(s) ==
  IF Len(s) = 0 THEN 0
  ELSE 10 * ParseInt(SubSeq(s, 1, Len(s) - 1)) + s[Len(s)]

\* setup() lines 136-144: the high score after the guarded read
LoadHighScore(value, readFails) ==
  IF readFails THEN 0
  ELSE IF Len(value) > 0 THEN ParseInt(value) ELSE 0

\* ------------------------------------------------------------------------
\* Player (createPlayer)
\* ------------------------------------------------------------------------
createPlayer(w, gy) ==
  [x |-> (w * 15) \div 100, y |-> gy - PLAYER_SIZE \div 2, vy |-> 0,
   onGround |-> TRUE]

\* an update with no ground under the player
PlayerUpdateNoGround(p, gy) ==
  [p EXCEPT !.y = p.y + p.vy + GRAVITY, !.vy = p.vy + GRAVITY,
            !.onGround = FALSE]

PlayerUpdate(p, gy) ==
  LET vy1 == p.vy + GRAVITY
      y1  == p.y + vy1
  IN  IF y1 >= gy - PLAYER_SIZE \div 2
      THEN [p EXCEPT !.y = gy - PLAYER_SIZE \div 2, !.vy = 0, !.onGround = TRUE]
      ELSE [p EXCEPT !.y = y1, !.vy = vy1, !.onGround = FALSE]

\* a jump that does not ask whether the player is on the ground
PlayerJumpAnywhere(p, held) ==
  <<[p EXCEPT !.vy = JUMP_FORCE, !.onGround = FALSE], TRUE>>

\* player.jump(): the pair <<player, isJumping>> after the call
PlayerJump(p, held) ==
  IF p.onGround
  THEN <<[p EXCEPT !.vy = JUMP_FORCE, !.onGround = FALSE], TRUE>>
  ELSE <<p, held>>

\* player.handleJumpRelease(): vy *= VARIABLE_JUMP_DAMPING (0.5) when rising
PlayerHandleJumpRelease(p) ==
  IF p.vy < 0 THEN [p EXCEPT !.vy = Div(p.vy, 2)] ELSE p

PlayerBounds(p) ==
  [left   |-> p.x - (PLAYER_SIZE * 6) \div 20,
   right  |-> p.x + (PLAYER_SIZE * 6) \div 20,
   top    |-> p.y - (PLAYER_SIZE * 9) \div 20,
   bottom |-> p.y + (PLAYER_SIZE * 9) \div 20]

\* an overlap test that does not look at the second box's top
rectOverlapOneSided(r1, r2) ==
  /\ r1.left < r2.right
  /\ r1.right > r2.left
  /\ r1.top < r2.bottom

\* an overlap test that counts a shared edge
rectOverlapClosed(r1, r2) ==
  /\ r1.left <= r2.right
  /\ r1.right >= r2.left
  /\ r1.top <= r2.bottom
  /\ r1.bottom >= r2.top

rectOverlap(r1, r2) ==
  /\ r1.left < r2.right
  /\ r1.right > r2.left
  /\ r1.top < r2.bottom
  /\ r1.bottom > r2.top

\* ------------------------------------------------------------------------
\* Obstacles (createObstacle and its methods)
\* ------------------------------------------------------------------------
\* an obstacle whose oscillation is decided by the random draw alone
createObstacleAnyDistance(type, positionType, moveDraw, moveOffset, wobbleOffset, w, gy, dist) ==
  LET size == OBSTACLE_SIZE
      yPos == IF positionType = 0
              THEN gy - size \div 2
              ELSE Min(gy - (PLAYER_SIZE * 11) \div 10 - size \div 2,
                       gy - (size * 3) \div 2)
  IN  [x |-> w + size, y |-> yPos, initialY |-> yPos, type |-> type,
       width |-> IF type = "NM" THEN (size * 11) \div 10 ELSE size,
       positionType |-> positionType, wobbleOffset |-> wobbleOffset,
       canMoveVertically |-> moveDraw,
       verticalMoveOffset |-> IF moveDraw THEN moveOffset ELSE 0]

\* type "NM" is 1.1 * size wide, "CA" 1.0 * size; positionType 0 ground,
\* 1 flying; moveDraw is the outcome of random() < VERTICAL_MOVE_CHANCE
createObstacle(type, positionType, moveDraw, moveOffset, wobbleOffset, w, gy, dist) ==
  LET size == OBSTACLE_SIZE
      yPos == IF positionType = 0
              THEN gy - size \div 2
              ELSE Min(gy - (PLAYER_SIZE * 11) \div 10 - size \div 2,
                       gy - (size * 3) \div 2)
      canMove == dist > VERTICAL_MOVE_START_DISTANCE /\ moveDraw
  IN  [x |-> w + size, y |-> yPos, initialY |-> yPos, type |-> type,
       width |-> IF type = "NM" THEN (size * 11) \div 10 ELSE size,
       positionType |-> positionType, wobbleOffset |-> wobbleOffset,
       canMoveVertically |-> canMove,
       verticalMoveOffset |-> IF canMove THEN moveOffset ELSE 0]

\* an update that does not clamp the oscillation
ObstacleUpdateNoClamp(o, fc, speed, gy) ==
  LET x1 == o.x - speed
      dynamicMoveSpeed == VERTICAL_MOVE_SPEED + (speed - INITIAL_GAME_SPEED) \div 10
      offsetY == Div(Sin(fc * dynamicMoveSpeed + o.verticalMoveOffset)
                       * (VERTICAL_MOVE_RANGE \div 2), 1000)
  IN  [o EXCEPT !.x = x1,
                !.y = IF o.canMoveVertically THEN o.initialY + offsetY
                      ELSE o.initialY]

\* an update whose hover carries a flying obstacle down by a player's height
ObstacleUpdateDeepHover(o, fc, speed, gy) ==
  LET x1 == o.x - speed
      dynamicMoveSpeed == VERTICAL_MOVE_SPEED + (speed - INITIAL_GAME_SPEED) \div 10
      offsetY == Div(Sin(fc * dynamicMoveSpeed + o.verticalMoveOffset)
                       * (VERTICAL_MOVE_RANGE \div 2), 1000)
      y1 == IF o.canMoveVertically
            THEN Min(Max(o.initialY + offsetY, OBSTACLE_SIZE \div 2),
                     gy - OBSTACLE_SIZE \div 2)
            ELSE IF o.positionType = 1
            THEN o.initialY + PLAYER_SIZE
            ELSE o.initialY
  IN  [o EXCEPT !.x = x1, !.y = y1]

\* an update that does not scroll the obstacle
ObstacleUpdateStill(o, fc, speed, gy) ==
  [o EXCEPT !.y = IF o.canMoveVertically THEN o.y ELSE o.initialY]

\* obstacle.update() at frame fc with the current gameSpeed
ObstacleUpdate(o, fc, speed, gy) ==
  LET x1 == o.x - speed
      dynamicMoveSpeed == VERTICAL_MOVE_SPEED + (speed - INITIAL_GAME_SPEED) \div 10
      offsetY == Div(Sin(fc * dynamicMoveSpeed + o.verticalMoveOffset)
                       * (VERTICAL_MOVE_RANGE \div 2), 1000)
      hoverSpeed == 10000 + ((speed - INITIAL_GAME_SPEED) * 8) \div 10
      hoverAmount == 500 + (speed - INITIAL_GAME_SPEED) \div 10
      y1 == IF o.canMoveVertically
            THEN Min(Max(o.initialY + offsetY, OBSTACLE_SIZE \div 2),
                     gy - OBSTACLE_SIZE \div 2)
            ELSE IF o.positionType = 1
            THEN o.initialY
                   + Div(Sin(fc * hoverSpeed + o.wobbleOffset + HALF_PI)
                           * hoverAmount, 1000)
            ELSE o.initialY
  IN  [o EXCEPT !.x = x1, !.y = y1]

ObstacleIsOffScreen(o) == o.x < -(OBSTACLE_SIZE * 2)

ObstacleBounds(o) ==
  [left   |-> o.x - (o.width * 9) \div 20,
   right  |-> o.x + (o.width * 9) \div 20,
   top    |-> o.y - (OBSTACLE_SIZE * 9) \div 20,
   bottom |-> o.y + (OBSTACLE_SIZE * 9) \div 20]

\* array[i] = array[array.length - 1]; array.pop()
SwapPop(a, i) ==
  SubSeq([a EXCEPT ![i] = a[Len(a)]], 1, Len(a) - 1)

\* handleObstacles(): the backward loop from index i (1-based) down
RECURSIVE handleObstaclesFrom(_, _, _, _, _)
\* the loop visiting index i again after a removal there
handleObstaclesFromRevisits(obs, i, fc, speed, gy) ==
  IF i < 1 THEN obs
  ELSE LET upd == [obs EXCEPT ![i] = ObstacleUpdate(obs[i], fc, speed, gy)]
       IN  IF ObstacleIsOffScreen(upd[i])
           THEN handleObstaclesFrom(SwapPop(upd, i), Min(i, Len(upd) - 1),
                                    fc, speed, gy)
           ELSE handleObstaclesFrom(upd, i - 1, fc, speed, gy)

handleObstaclesFrom(obs, i, fc, speed, gy) ==
  IF i < 1 THEN obs
  ELSE LET upd == [obs EXCEPT ![i] = ObstacleUpdate(obs[i], fc, speed, gy)]
       IN  IF ObstacleIsOffScreen(upd[i])
           THEN handleObstaclesFrom(SwapPop(upd, i), i - 1, fc, speed, gy)
           ELSE handleObstaclesFrom(upd, i - 1, fc, speed, gy)

handleObstacles(obs, fc, speed, gy) ==
  handleObstaclesFrom(obs, Len(obs), fc, speed, gy)

\* ------------------------------------------------------------------------
\* Joists (createJoist and its methods)
\* ------------------------------------------------------------------------
\* lowDraw is the outcome of random() > 0.6, goldDraw of random() < 0.15
createJoist(forceGolden, lowDraw, goldDraw, animOffset, w, gy) ==
  LET h == JOIST_HEIGHT
      spawnY == Max(IF lowDraw THEN gy - (h * 3) \div 2 ELSE gy - (h * 7) \div 2,
                    h * 2)
  IN  [x |-> w + JOIST_WIDTH, y |-> spawnY, baseY |-> spawnY,
       isGolden |-> forceGolden \/ goldDraw, animOffset |-> animOffset]

JoistUpdate(j, fc, speed) ==
  LET hoverSpeed == 10000 + (speed - INITIAL_GAME_SPEED) \div 2
      hover == Div(Sin(fc * hoverSpeed + j.animOffset) * 3000, 1000)
  IN  [j EXCEPT !.x = j.x - speed, !.y = j.baseY + hover]

JoistIsOffScreen(j) == j.x < -JOIST_WIDTH

JoistBounds(j) ==
  [left   |-> j.x - JOIST_WIDTH \div 2,
   right  |-> j.x + JOIST_WIDTH \div 2,
   top    |-> j.y - JOIST_HEIGHT \div 2,
   bottom |-> j.y + JOIST_HEIGHT \div 2]

RECURSIVE handleJoistsFrom(_, _, _, _)
\* the loop popping the last joist instead of the one that left
handleJoistsFromPopsLast(js, i, fc, speed) ==
  IF i < 1 THEN js
  ELSE LET upd == [js EXCEPT ![i] = JoistUpdate(js[i], fc, speed)]
       IN  IF JoistIsOffScreen(upd[i])
           THEN handleJoistsFrom(SubSeq(upd, 1, Len(upd) - 1), i - 1, fc, speed)
           ELSE handleJoistsFrom(upd, i - 1, fc, speed)

handleJoistsFrom(js, i, fc, speed) ==
  IF i < 1 THEN js
  ELSE LET upd == [js EXCEPT ![i] = JoistUpdate(js[i], fc, speed)]
       IN  IF JoistIsOffScreen(upd[i])
           THEN handleJoistsFrom(SwapPop(upd, i), i - 1, fc, speed)
           ELSE handleJoistsFrom(upd, i - 1, fc, speed)

handleJoists(js, fc, speed) == handleJoistsFrom(js, Len(js), fc, speed)

\* ------------------------------------------------------------------------
\* Particle system.  A particle is [id, life, alpha, active]; ps is the
\* triple [active |-> activeParticles, pool |-> particlePool,
\* created |-> objects constructed so far].
\* ------------------------------------------------------------------------
\* an acquisition that reads the pool's last object without popping it
AcquireParticleNoPop(ps, life) ==
  IF Len(ps.pool) > 0
  THEN [ps EXCEPT
          !.active = Append(ps.active,
                            [ps.pool[Len(ps.pool)] EXCEPT
                               !.life = life,
                               !.alpha = 255 * PARTICLE_LIFETIME,
                               !.active = TRUE])]
  ELSE [ps EXCEPT
          !.created = ps.created + 1,
          !.active = Append(ps.active,
                            [id |-> ps.created + 1, life |-> life,
                             alpha |-> 255 * PARTICLE_LIFETIME,
                             active |-> TRUE])]

\* an acquisition that constructs a new object whatever the pool holds
AcquireParticleAlwaysNew(ps, life) ==
  [ps EXCEPT
     !.created = ps.created + 1,
     !.active = Append(ps.active,
                       [id |-> ps.created + 1, life |-> life,
                        alpha |-> 255 * PARTICLE_LIFETIME,
                        active |-> TRUE])]

\* `particlePool.length > 0 ? particlePool.pop() : {}` followed by the
\* (re)initialisation and `activeParticles.push(p)`
AcquireParticle(ps, life) ==
  IF Len(ps.pool) > 0
  THEN [ps EXCEPT
          !.pool = SubSeq(ps.pool, 1, Len(ps.pool) - 1),
          !.active = Append(ps.active,
                            [ps.pool[Len(ps.pool)] EXCEPT
                               !.life = life,
                               !.alpha = 255 * PARTICLE_LIFETIME,
                               !.active = TRUE])]
  ELSE [ps EXCEPT
          !.created = ps.created + 1,
          !.active = Append(ps.active,
                            [id |-> ps.created + 1, life |-> life,
                             alpha |-> 255 * PARTICLE_LIFETIME,
                             active |-> TRUE])]

\* the loop `for (let i = 0; i < count; i++)` of a burst; ps1 is the state
\* after one acquisition, bound as a value before the next iteration
RECURSIVE SpawnParticles(_, _, _)
SpawnParticles(ps, count, life) ==
  IF count = 0 THEN ps
  ELSE CHOOSE r \in {SpawnParticles(ps1, count - 1, life) :
                       ps1 \in {AcquireParticle(ps, life)}} : TRUE

createCollectParticles(ps) ==
  SpawnParticles(ps, COLLECT_PARTICLES, PARTICLE_LIFETIME)

\* checkCollisions lines 1019-1036
createExplosionParticles(ps) ==
  SpawnParticles(ps, EXPLOSION_PARTICLES, EXPLOSION_LIFETIME)

\* an advance that drops an expired particle instead of pooling it
UpdateParticleAtDrops(ps, i) ==
  LET q == [ps.active[i] EXCEPT !.life = ps.active[i].life - 1,
                                !.alpha = (ps.active[i].life - 1) * 255]
  IN  IF q.life <= 0
      THEN [ps EXCEPT !.active = SwapPop(ps.active, i)]
      ELSE [ps EXCEPT !.active[i] = q]

\* an advance that retires a particle one frame late
UpdateParticleAtLate(ps, i) ==
  LET q == [ps.active[i] EXCEPT !.life = ps.active[i].life - 1,
                                !.alpha = (ps.active[i].life - 1) * 255]
  IN  IF q.life < 0
      THEN [ps EXCEPT
              !.pool = Append(ps.pool, [q EXCEPT !.active = FALSE]),
              !.active = SwapPop(ps.active, i)]
      ELSE [ps EXCEPT !.active[i] = q]

\* one iteration of updateParticles' loop body on activeParticles[i]
UpdateParticleAt(ps, i) ==
  LET q == [ps.active[i] EXCEPT !.life = ps.active[i].life - 1,
                                !.alpha = (ps.active[i].life - 1) * 255]
  IN  IF q.life <= 0
      THEN [ps EXCEPT
              !.pool = Append(ps.pool, [q EXCEPT !.active = FALSE]),
              !.active = SwapPop(ps.active, i)]
      ELSE [ps EXCEPT !.active[i] = q]

RECURSIVE updateParticlesFrom(_, _)
updateParticlesFrom(ps, i) ==
  IF i < 1 THEN ps
  ELSE updateParticlesFrom(UpdateParticleAt(ps, i), i - 1)

updateParticles(ps) == updateParticlesFrom(ps, Len(ps.active))

\* the ids of a particle array
Ids(a) == {a[i].id : i \in 1..Len(a)}

\* ------------------------------------------------------------------------
\* Progression and spawning (updateGame lines 386-392, spawnElements)
\* ------------------------------------------------------------------------
\* a speed that falls with the distance
SpeedAtFalling(dist) ==
  INITIAL_GAME_SPEED - SPEED_LOG_BASE * Log10(LogArg(dist, 15))

SpeedAt(dist) == INITIAL_GAME_SPEED + SPEED_LOG_BASE * Log10(LogArg(dist, 15))

\* rateReduction, in 1/1000 frame
rateReduction(dist) == SPAWN_RATE_LOG_BASE * Log10(LogArg(dist, 12))

\* an interval without its floor
RateFromNoFloor(reduction, baseRate, minRate) ==
  (baseRate * 1000 - reduction) \div 1000

\* floor(max(minRate, baseRate - rateReduction)), reduction in 1/1000 frame
RateFrom(reduction, baseRate, minRate) ==
  Max(minRate * 1000, baseRate * 1000 - reduction) \div 1000

SpawnRate(dist, baseRate, minRate) ==
  RateFrom(rateReduction(dist), baseRate, minRate)

obstacleSpawnRate(dist) ==
  SpawnRate(dist, BASE_OBSTACLE_SPAWN_RATE, MIN_OBSTACLE_SPAWN_RATE)

joistSpawnRate(dist) ==
  SpawnRate(dist, BASE_JOIST_SPAWN_RATE, MIN_JOIST_SPAWN_RATE)

goldenJoistSpawnRate(dist) == joistSpawnRate(dist) * 5

\* every obstacle createObstacle() can return, over its random draws
NewObstacles(w, gy, dist, phases) ==
  {createObstacle(t, pt, mv, vo, wo, w, gy, dist) :
     t \in {"NM", "CA"}, pt \in {0, 1}, mv \in BOOLEAN,
     vo \in phases, wo \in phases}

NewJoists(forceGolden, w, gy, phases) ==
  {createJoist(forceGolden, low, gold, ph, w, gy) :
     low \in BOOLEAN, gold \in BOOLEAN, ph \in phases}

\* an obstacle step that spawns a pair
SpawnObstaclesPair(obs, fc, dist, w, gy, phases) ==
  IF fc % obstacleSpawnRate(dist) = 0
  THEN {Append(Append(obs, o), o) : o \in NewObstacles(w, gy, dist, phases)}
  ELSE {obs}

\* an obstacle step on the interval of distance 0
SpawnObstaclesBaseRate(obs, fc, dist, w, gy, phases) ==
  IF fc % obstacleSpawnRate(0) = 0
  THEN {Append(obs, o) : o \in NewObstacles(w, gy, dist, phases)}
  ELSE {obs}

\* an obstacle step that also looks at the canvas
SpawnObstaclesTallCanvas(obs, fc, dist, w, gy, phases) ==
  IF fc % obstacleSpawnRate(dist) = 0 /\ gy >= 2 * OBSTACLE_SIZE
  THEN {Append(obs, o) : o \in NewObstacles(w, gy, dist, phases)}
  ELSE {obs}

\* the obstacle array after spawnElements' obstacle step, over the draws
SpawnObstacles(obs, fc, dist, w, gy, phases) ==
  IF fc % obstacleSpawnRate(dist) = 0
  THEN {Append(obs, o) : o \in NewObstacles(w, gy, dist, phases)}
  ELSE {obs}

\* a regular step behind its random gate only
SpawnRegularJoistsAnyFrame(js, fc, dist, w, gy, phases) ==
  {js} \cup {Append(js, j) : j \in NewJoists(FALSE, w, gy, phases)}

\* the joist array after the regular step (gated by random() > 0.3) ...
SpawnRegularJoists(js, fc, dist, w, gy, phases) ==
  IF fc % joistSpawnRate(dist) = 0
  THEN {js} \cup {Append(js, j) : j \in NewJoists(FALSE, w, gy, phases)}
  ELSE {js}

\* ... and after the golden step (gated by random() > 0.6)
SpawnGoldenJoists(js, fc, dist, w, gy, phases) ==
  IF fc % goldenJoistSpawnRate(dist) = 0
  THEN {js} \cup {Append(js, j) : j \in NewJoists(TRUE, w, gy, phases)}
  ELSE {js}

SpawnJoists(js, fc, dist, w, gy, phases) ==
  UNION {SpawnGoldenJoists(j1, fc, dist, w, gy, phases) :
           j1 \in SpawnRegularJoists(js, fc, dist, w, gy, phases)}

\* ------------------------------------------------------------------------
\* checkCollisions.  c is the part of the state the pass works on:
\*   [gameOver, score, highScore, stored, joists, ps]
\* plus a record of what the pass did this frame:
\*   explosions (bursts of the terminal step), checks (high-score checks),
\*   collected (pickups collected), last (ids and life of the last burst)
\* ------------------------------------------------------------------------
LastIds(a, n) == {a[i].id : i \in (Len(a) - n + 1)..Len(a)}

\* a terminal step that records the score without comparing it
OnObstacleHitOverwrites(c, writeFails) ==
  LET ps1 == createExplosionParticles(c.ps)
  IN  [c EXCEPT
         !.gameOver = TRUE,
         !.ps = ps1,
         !.highScore = c.score,
         !.stored = IF ~writeFails THEN NumToString(c.score) ELSE @,
         !.explosions = @ + 1,
         !.checks = @ + 1,
         !.last = [ids |-> LastIds(ps1.active, EXPLOSION_PARTICLES),
                   life |-> EXPLOSION_LIFETIME]]

\* a terminal step that writes before it assigns, so that a failing write
\* loses the new high score
OnObstacleHitWriteFirst(c, writeFails) ==
  LET ps1 == createExplosionParticles(c.ps)
      better == c.score > c.highScore
  IN  [c EXCEPT
         !.gameOver = TRUE,
         !.ps = ps1,
         !.highScore = IF better /\ ~writeFails THEN c.score ELSE @,
         !.stored = IF better /\ ~writeFails THEN NumToString(c.score) ELSE @,
         !.explosions = @ + 1,
         !.checks = @ + 1,
         !.last = [ids |-> LastIds(ps1.active, EXPLOSION_PARTICLES),
                   life |-> EXPLOSION_LIFETIME]]

\* lines 1015-1047: the terminal step
OnObstacleHit(c, writeFails) ==
  LET ps1 == createExplosionParticles(c.ps)
      better == c.score > c.highScore
  IN  [c EXCEPT
         !.gameOver = TRUE,
         !.ps = ps1,
         !.highScore = IF better THEN c.score ELSE @,
         !.stored = IF better /\ ~writeFails THEN NumToString(c.score) ELSE @,
         !.explosions = @ + 1,
         !.checks = @ + 1,
         !.last = [ids |-> LastIds(ps1.active, EXPLOSION_PARTICLES),
                   life |-> EXPLOSION_LIFETIME]]

\* a collection that scores every pickup alike
OnJoistHitFlat(c, i) ==
  LET ps1 == createCollectParticles(c.ps)
  IN  [c EXCEPT
         !.score = @ + 1,
         !.ps = ps1,
         !.joists = SwapPop(c.joists, i),
         !.collected = @ + 1,
         !.last = [ids |-> LastIds(ps1.active, COLLECT_PARTICLES),
                   life |-> PARTICLE_LIFETIME]]

\* lines 1060-1074: collecting joists[i]
OnJoistHit(c, i) ==
  LET ps1 == createCollectParticles(c.ps)
  IN  [c EXCEPT
         !.score = @ + (IF c.joists[i].isGolden THEN 5 ELSE 1),
         !.ps = ps1,
         !.joists = SwapPop(c.joists, i),
         !.collected = @ + 1,
         !.last = [ids |-> LastIds(ps1.active, COLLECT_PARTICLES),
                   life |-> PARTICLE_LIFETIME]]

\* the backward loop over joists from index i
RECURSIVE checkJoistsFrom(_, _, _)
\* the loop stepping over the pickup before a collected one
checkJoistsFromSkips(c, pb, i) ==
  IF i < 1 THEN c
  ELSE IF rectOverlap(pb, JoistBounds(c.joists[i]))
       THEN checkJoistsFrom(OnJoistHit(c, i), pb, i - 2)
       ELSE checkJoistsFrom(c, pb, i - 1)

checkJoistsFrom(c, pb, i) ==
  IF i < 1 THEN c
  ELSE IF rectOverlap(pb, JoistBounds(c.joists[i]))
       THEN checkJoistsFrom(OnJoistHit(c, i), pb, i - 1)
       ELSE checkJoistsFrom(c, pb, i - 1)

\* the forward loop over obstacles from index i; the first overlap returns
RECURSIVE checkObstaclesFrom(_, _, _, _, _)
\* the loop without its return: the pickups are tested after a hit
checkObstaclesFromThenJoists(c, pb, obs, i, writeFails) ==
  IF i > Len(obs) THEN checkJoistsFrom(c, pb, Len(c.joists))
  ELSE IF rectOverlap(pb, ObstacleBounds(obs[i]))
       THEN checkJoistsFrom(OnObstacleHit(c, writeFails), pb, Len(c.joists))
       ELSE checkObstaclesFrom(c, pb, obs, i + 1, writeFails)

\* the loop without its return: every overlapping obstacle is processed
checkObstaclesFromEveryHit(c, pb, obs, i, writeFails) ==
  IF i > Len(obs)
  THEN IF c.gameOver THEN c ELSE checkJoistsFrom(c, pb, Len(c.joists))
  ELSE IF rectOverlap(pb, ObstacleBounds(obs[i]))
       THEN checkObstaclesFrom(OnObstacleHit(c, writeFails), pb, obs, i + 1,
                               writeFails)
       ELSE checkObstaclesFrom(c, pb, obs, i + 1, writeFails)

checkObstaclesFrom(c, pb, obs, i, writeFails) ==
  IF i > Len(obs) THEN checkJoistsFrom(c, pb, Len(c.joists))
  ELSE IF rectOverlap(pb, ObstacleBounds(obs[i]))
       THEN OnObstacleHit(c, writeFails)
       ELSE checkObstaclesFrom(c, pb, obs, i + 1, writeFails)

checkCollisions(c, p, obs, writeFails) ==
  checkObstaclesFrom(c, PlayerBounds(p), obs, 1, writeFails)

\* the obstacles / joists a box overlaps
HitObstacles(pb, obs) ==
  {i \in 1..Len(obs) : rectOverlap(pb, ObstacleBounds(obs[i]))}

HitJoists(pb, js) ==
  {i \in 1..Len(js) : rectOverlap(pb, JoistBounds(js[i]))}

\* ------------------------------------------------------------------------
\* Initial state: after setup() (lines 121-145), which calls resetGame()
\* and then reads the high score; the stored value is whatever an earlier
\* session left (nothing, or "1"), and the read may throw.
\* ------------------------------------------------------------------------
NoMid ==
  [ran |-> FALSE, hitObstacles |-> {}, hitJoists |-> {}, joists |-> <<>>,
   score |-> 0, highScore |-> 0, stored |-> <<>>, live |-> 0, pooled |-> 0,
   created |-> 0, explosions |-> 0, checks |-> 0, collected |-> 0,
   writeFails |-> FALSE, distance |-> 0, speed |-> 0, nObstacles |-> 0,
   nJoists |-> 0, obstaclesBefore |-> 0, joistsBefore |-> 0,
   airborne |-> FALSE]

NoBurst == [ids |-> {}, life |-> 0, advanced |-> 0]

\* no obstacle spawned yet in this run
NoSpawn == [frame |-> 0, gap |-> 0]

InitIn(e) ==
  /\ gameStarted = FALSE
  /\ gameOver = FALSE
  /\ frameCount = 0
  /\ score = 0
  /\ distance = 0
  /\ gameSpeed = INITIAL_GAME_SPEED
  /\ width = InitialSize[1] * PX
  /\ groundY = GroundOf(InitialSize[2])
  /\ player = createPlayer(InitialSize[1] * PX, GroundOf(InitialSize[2]))
  /\ isJumping = FALSE
  /\ obstacles = <<>>
  /\ joists = <<>>
  /\ activeParticles = <<>>
  /\ particlePool = <<>>
  /\ \E st \in e.storage :
       /\ stored = st[1]
       /\ readFailed = st[2]
       /\ highScore = LoadHighScore(st[1], st[2])
  /\ created = 0
  /\ mid = NoMid
  /\ burst = NoBurst
  /\ used = [jumps |-> 0, resets |-> 0, resizes |-> 0, over |-> 0]
  /\ lastSpawn = NoSpawn

\* ------------------------------------------------------------------------
\* The actions take the environment e they run in: the frame counts at
\* which the host delivers each input, the canvas sizes it reports, the
\* phases random(TWO_PI) returns and how far a run is followed.
\*   e.storage        <<stored value, whether reading it throws>> at setup
\*   e.startFrames    frame counts at which the first press can arrive
\*   e.pressFrames    ... a press during play
\*   e.releaseFrames  ... a release
\*   e.resizeFrames   ... a resize
\*   e.phases         random(TWO_PI) draws
\*   e.sizes          canvas sizes a resize can report
\*   e.maxDistance    a running frame is taken while distance is below it
\*   e.laterDistance  the same, for the runs after a reset
\*   e.quietDistance  below this distance the random draws are the quiet
\*                    ones: every obstacle is a flying "CA" with phase 0 and
\*                    the random gates of the pickups fail
\* ------------------------------------------------------------------------
MaxOf(S) == CHOOSE m \in S : \A n \in S : n <= m

\* the draws of createObstacle / spawnElements the environment lets through
AdmitObstacles(e, dist, o1, o2) ==
  IF dist >= e.quietDistance \/ o2 = o1 THEN TRUE
  ELSE /\ o2[Len(o2)].positionType = 1
       /\ o2[Len(o2)].type = "CA"
       /\ o2[Len(o2)].wobbleOffset = 0

AdmitJoists(e, dist, j1, j2) ==
  IF dist >= e.quietDistance THEN TRUE ELSE j2 = j1

\* draw(): one action per branch.  p5 increments frameCount before it
\* calls draw().
\* lines 156-158: the start screen
DrawStartScreen(e) ==
  /\ ~gameStarted
  /\ frameCount < MaxOf(e.startFrames)
  /\ frameCount' = frameCount + 1
  /\ mid' = NoMid
  /\ UNCHANGED <<gameStarted, gameOver, score, highScore, distance, gameSpeed,
                 width, groundY, player, isJumping, obstacles, joists,
                 activeParticles, particlePool, stored, created, burst, used,
                 readFailed, lastSpawn>>

\* lines 159-164: updateGame() then checkCollisions()
DrawRunning(e) ==
  /\ gameStarted
  /\ ~gameOver
  /\ distance < (IF used.resets = 0 THEN e.maxDistance ELSE e.laterDistance)
  /\ LET fc  == frameCount + 1
         p1  == PlayerUpdate(player, groundY)
         o1  == handleObstacles(obstacles, fc, gameSpeed, groundY)
         j1  == handleJoists(joists, fc, gameSpeed)
         ps1 == updateParticles([active |-> activeParticles,
                                 pool |-> particlePool, created |-> created])
         d1  == distance + gameSpeed
         \* lines 397-400: the variable jump height check
         p2  == IF ~isJumping /\ p1.vy < (-JUMP_FORCE * 2) \div 10
                THEN PlayerHandleJumpRelease(p1) ELSE p1
         pb  == PlayerBounds(p2)
     IN  \E o2 \in SpawnObstacles(o1, fc, distance, width, groundY, e.phases) :
         \E j2 \in SpawnJoists(j1, fc, distance, width, groundY, e.phases) :
         AdmitObstacles(e, distance, o1, o2) /\ AdmitJoists(e, distance, j1, j2) /\
         \E writeFails \in IF HitObstacles(pb, o2) # {} /\ score > highScore
                           THEN BOOLEAN ELSE {FALSE} :
           LET c0 == [gameOver |-> FALSE, score |-> score,
                      highScore |-> highScore, stored |-> stored,
                      joists |-> j2, ps |-> ps1, explosions |-> 0,
                      checks |-> 0, collected |-> 0,
                      last |-> [ids |-> {}, life |-> 0]]
               c  == checkCollisions(c0, p2, o2, writeFails)
           IN  /\ frameCount' = fc
               /\ player' = p2
               /\ obstacles' = o2
               /\ distance' = d1
               /\ gameSpeed' = SpeedAt(d1)
               /\ gameOver' = c.gameOver
               /\ score' = c.score
               /\ highScore' = c.highScore
               /\ stored' = c.stored
               /\ joists' = c.joists
               /\ activeParticles' = c.ps.active
               /\ particlePool' = c.ps.pool
               /\ created' = c.ps.created
               /\ mid' = [ran |-> TRUE,
                          hitObstacles |-> HitObstacles(pb, o2),
                          hitJoists |-> HitJoists(pb, j2),
                          joists |-> j2, score |-> score,
                          highScore |-> highScore, stored |-> stored,
                          live |-> Len(ps1.active), pooled |-> Len(ps1.pool),
                          created |-> ps1.created,
                          explosions |-> c.explosions, checks |-> c.checks,
                          collected |-> c.collected,
                          writeFails |-> writeFails,
                          distance |-> distance, speed |-> gameSpeed,
                          nObstacles |-> Len(o1), nJoists |-> Len(j1),
                          obstaclesBefore |-> Len(obstacles),
                          joistsBefore |-> Len(joists),
                          airborne |-> ~player.onGround]
               /\ lastSpawn' = IF Len(o2) > Len(o1)
                               THEN [frame |-> fc,
                                     gap |-> IF lastSpawn.frame = 0 THEN 0
                                             ELSE fc - lastSpawn.frame]
                               ELSE lastSpawn
               /\ burst' = IF c.last.ids # {}
                           THEN [ids |-> c.last.ids, life |-> c.last.life,
                                 advanced |-> 0]
                           ELSE [burst EXCEPT
                                   !.advanced = Min(@ + 1, EXPLOSION_LIFETIME)]
  /\ UNCHANGED <<gameStarted, width, groundY, isJumping, used, readFailed>>

\* a game-over screen that keeps scrolling the obstacles
DrawGameOverScrolls ==
  /\ gameStarted
  /\ gameOver
  /\ used.over < MaxOverFrames
  /\ frameCount' = frameCount + 1
  /\ used' = [used EXCEPT !.over = @ + 1]
  /\ mid' = NoMid
  /\ obstacles' = handleObstacles(obstacles, frameCount + 1, gameSpeed, groundY)
  /\ UNCHANGED <<gameStarted, gameOver, score, highScore, distance, gameSpeed,
                 width, groundY, player, isJumping, joists,
                 activeParticles, particlePool, stored, created, burst,
                 readFailed, lastSpawn>>

\* a game-over screen that keeps advancing the particles
DrawGameOverFades ==
  /\ gameStarted
  /\ gameOver
  /\ used.over < MaxOverFrames
  /\ frameCount' = frameCount + 1
  /\ used' = [used EXCEPT !.over = @ + 1]
  /\ mid' = NoMid
  /\ LET ps1 == updateParticles([active |-> activeParticles,
                                  pool |-> particlePool, created |-> created])
     IN  /\ activeParticles' = ps1.active
         /\ particlePool' = ps1.pool
  /\ UNCHANGED <<gameStarted, gameOver, score, highScore, distance, gameSpeed,
                 width, groundY, player, isJumping, obstacles, joists,
                 stored, created, burst, readFailed, lastSpawn>>

\* lines 165-169: the game-over screen
DrawGameOver ==
  /\ gameStarted
  /\ gameOver
  /\ used.over < MaxOverFrames
  /\ frameCount' = frameCount + 1
  /\ used' = [used EXCEPT !.over = @ + 1]
  /\ mid' = NoMid
  /\ UNCHANGED <<gameStarted, gameOver, score, highScore, distance, gameSpeed,
                 width, groundY, player, isJumping, obstacles, joists,
                 activeParticles, particlePool, stored, created, burst,
                 readFailed, lastSpawn>>

draw(e) == DrawStartScreen(e) \/ DrawRunning(e) \/ DrawGameOver

\* ------------------------------------------------------------------------
\* Input (handleInputStart, handleInputEnd), resetGame, windowResized
\* ------------------------------------------------------------------------
\* lines 1208-1211: the first press starts the game
StartGame(e) ==
  /\ ~gameStarted
  /\ frameCount \in e.startFrames
  /\ gameStarted' = TRUE
  /\ mid' = NoMid
  /\ UNCHANGED <<gameOver, frameCount, score, highScore, distance, gameSpeed,
                 width, groundY, player, isJumping, obstacles, joists,
                 activeParticles, particlePool, stored, created, burst, used,
                 readFailed, lastSpawn>>

\* a reset that leaves the pickups of the last run in place
resetGameKeepsJoists ==
  /\ score' = 0
  /\ distance' = 0
  /\ gameSpeed' = INITIAL_GAME_SPEED
  /\ obstacles' = <<>>
  /\ activeParticles' = <<>>
  /\ player' = createPlayer(width, groundY)
  /\ gameOver' = FALSE
  /\ isJumping' = FALSE
  /\ frameCount' = 0
  /\ UNCHANGED <<gameStarted, highScore, width, groundY, particlePool, stored,
                 created, readFailed, joists>>

\* a reset that goes back to the start screen
resetGameToStartScreen ==
  /\ score' = 0
  /\ distance' = 0
  /\ gameSpeed' = INITIAL_GAME_SPEED
  /\ obstacles' = <<>>
  /\ joists' = <<>>
  /\ activeParticles' = <<>>
  /\ player' = createPlayer(width, groundY)
  /\ gameOver' = FALSE
  /\ gameStarted' = FALSE
  /\ isJumping' = FALSE
  /\ frameCount' = 0
  /\ UNCHANGED <<highScore, width, groundY, particlePool, stored,
                 created, readFailed>>

\* a reset that keeps the score of the last run
resetGameKeepsScore ==
  /\ distance' = 0
  /\ gameSpeed' = INITIAL_GAME_SPEED
  /\ obstacles' = <<>>
  /\ joists' = <<>>
  /\ activeParticles' = <<>>
  /\ player' = createPlayer(width, groundY)
  /\ gameOver' = FALSE
  /\ isJumping' = FALSE
  /\ frameCount' = 0
  /\ UNCHANGED <<gameStarted, highScore, width, groundY, particlePool, stored,
                 created, readFailed, score>>

\* a reset that keeps the distance of the last run
resetGameKeepsDistance ==
  /\ score' = 0
  /\ gameSpeed' = INITIAL_GAME_SPEED
  /\ obstacles' = <<>>
  /\ joists' = <<>>
  /\ activeParticles' = <<>>
  /\ player' = createPlayer(width, groundY)
  /\ gameOver' = FALSE
  /\ isJumping' = FALSE
  /\ frameCount' = 0
  /\ UNCHANGED <<gameStarted, highScore, width, groundY, particlePool, stored,
                 created, readFailed, distance>>

\* resetGame() lines 1280-1306
resetGame ==
  /\ score' = 0
  /\ distance' = 0
  /\ gameSpeed' = INITIAL_GAME_SPEED
  /\ obstacles' = <<>>
  /\ joists' = <<>>
  /\ activeParticles' = <<>>
  /\ player' = createPlayer(width, groundY)
  /\ gameOver' = FALSE
  /\ isJumping' = FALSE
  /\ frameCount' = 0
  /\ UNCHANGED <<gameStarted, highScore, width, groundY, particlePool, stored,
                 created, readFailed>>

\* lines 1212-1214: a press on the game-over screen
Restart ==
  /\ gameStarted
  /\ gameOver
  /\ used.resets < MaxResets
  /\ resetGame
  /\ used' = [used EXCEPT !.resets = @ + 1, !.over = 0]
  /\ mid' = NoMid
  /\ lastSpawn' = NoSpawn
  /\ UNCHANGED burst

\* lines 1215-1218: a press during play
JumpPress(e) ==
  /\ gameStarted
  /\ ~gameOver
  /\ frameCount \in e.pressFrames
  /\ used.jumps < MaxJumps
  /\ player' = PlayerJump(player, isJumping)[1]
  /\ isJumping' = PlayerJump(player, isJumping)[2]
  /\ used' = [used EXCEPT !.jumps = @ + 1]
  /\ mid' = NoMid
  /\ UNCHANGED <<gameStarted, gameOver, frameCount, score, highScore, distance,
                 gameSpeed, width, groundY, obstacles, joists, activeParticles,
                 particlePool, stored, created, burst,
                 readFailed, lastSpawn>>

handleInputStart(e) == StartGame(e) \/ Restart \/ JumpPress(e)

\* lines 1225-1232
handleInputEnd(e) ==
  /\ frameCount \in e.releaseFrames
  /\ player' = IF ~gameOver /\ gameStarted
               THEN PlayerHandleJumpRelease(player) ELSE player
  /\ isJumping' = FALSE
  /\ mid' = NoMid
  /\ UNCHANGED <<gameStarted, gameOver, frameCount, score, highScore, distance,
                 gameSpeed, width, groundY, obstacles, joists, activeParticles,
                 particlePool, stored, created, burst, used,
                 readFailed, lastSpawn>>

\* the player after windowResized (lines 1321-1329)
ResizePlayer(p, w, gy) ==
  LET p1 == [p EXCEPT !.x = (w * 15) \div 100]
  IN  IF p1.y + PLAYER_SIZE \div 2 > gy
      THEN [p1 EXCEPT !.y = gy - PLAYER_SIZE \div 2, !.vy = 0, !.onGround = TRUE]
      ELSE p1

\* a resize that starts the entity arrays afresh
windowResizedClearsEntities(e) ==
  /\ used.resizes < MaxResizes
  /\ frameCount \in e.resizeFrames
  /\ \E sz \in e.sizes :
       /\ width' = sz[1] * PX
       /\ groundY' = GroundOf(sz[2])
       /\ player' = ResizePlayer(player, sz[1] * PX, GroundOf(sz[2]))
  /\ used' = [used EXCEPT !.resizes = @ + 1]
  /\ mid' = NoMid
  /\ obstacles' = <<>>
  /\ joists' = <<>>
  /\ UNCHANGED <<gameStarted, gameOver, frameCount, score, highScore, distance,
                 gameSpeed, isJumping, activeParticles,
                 particlePool, stored, created, burst,
                 readFailed, lastSpawn>>

windowResized(e) ==
  /\ used.resizes < MaxResizes
  /\ frameCount \in e.resizeFrames
  /\ \E sz \in e.sizes :
       /\ width' = sz[1] * PX
       /\ groundY' = GroundOf(sz[2])
       /\ player' = ResizePlayer(player, sz[1] * PX, GroundOf(sz[2]))
  /\ used' = [used EXCEPT !.resizes = @ + 1]
  /\ mid' = NoMid
  /\ UNCHANGED <<gameStarted, gameOver, frameCount, score, highScore, distance,
                 gameSpeed, isJumping, obstacles, joists, activeParticles,
                 particlePool, stored, created, burst,
                 readFailed, lastSpawn>>

NextIn(e) ==
  draw(e) \/ handleInputStart(e) \/ handleInputEnd(e) \/ windowResized(e)

\* ------------------------------------------------------------------------
\* Spec: a short run with the inputs around the arrival of the first
\* obstacle and pickup.  A first press after 479 start-screen frames makes
\* frame 480 spawn an obstacle and a pickup together.
\* ------------------------------------------------------------------------
AllStorage ==
  {<<(<<>>), FALSE>>,
   <<NumToString(1), FALSE>>, <<NumToString(1), TRUE>>}

Env ==
  [storage |-> AllStorage,
   startFrames |-> {479},
   pressFrames |-> {488, 500, 501},
   releaseFrames |-> {492, 503},
   resizeFrames |-> {497},
   phases |-> {0},
   sizes |-> Sizes,
   quietDistance |-> 0,
   maxDistance |-> 150000,
   laterDistance |-> 150000]

Init == InitIn(Env)

Next == NextIn(Env)

Spec == Init /\ [][Next]_vars

\* ------------------------------------------------------------------------
\* SpecDouble: a first press after 14159 start-screen frames.  Frame 14160
\* is a multiple of the spawn rate at distance 0 (120) and frame 14161 of
\* the rate from then on (119): two obstacles spawn in consecutive frames
\* and reach the player together.
\* ------------------------------------------------------------------------
EnvDouble ==
  [storage |-> {<<(<<>>), FALSE>>},
   startFrames |-> {14159},
   pressFrames |-> {14170, 14181},
   releaseFrames |-> {14175},
   resizeFrames |-> {14165},
   phases |-> {0},
   sizes |-> Sizes,
   quietDistance |-> 0,
   maxDistance |-> 150000,
   laterDistance |-> 150000]

InitDouble == InitIn(EnvDouble)

NextDouble == NextIn(EnvDouble)

SpecDouble == InitDouble /\ [][NextDouble]_vars

\* ------------------------------------------------------------------------
\* SpecLong: one long first run and the run after its restart, with few
\* inputs: long enough for a collection burst to expire, for the pool to be
\* reused by the explosion, and for 60 frames of the next run.
\* ------------------------------------------------------------------------
EnvLong ==
  [storage |-> {<<(<<>>), FALSE>>},
   startFrames |-> {479},
   pressFrames |-> {488},
   releaseFrames |-> {503},
   resizeFrames |-> {497},
   phases |-> {0},
   sizes |-> Sizes,
   quietDistance |-> 0,
   maxDistance |-> 700000,
   laterDistance |-> 700000]

InitLong == InitIn(EnvLong)

NextLong == NextIn(EnvLong)

SpecLong == InitLong /\ [][NextLong]_vars

\* ------------------------------------------------------------------------
\* SpecFar: a first run from frame 0 or 1 that is followed past
\* VERTICAL_MOVE_START_DISTANCE (reached in frame 1347).  Up to there the
\* draws are the quiet ones, which a player on the ground survives; then
\* every draw is followed: frame 1358 spawns an obstacle that can
\* oscillate, frame 1370 is on the cadence of both pickup tiers.  A resize
\* at frame 1350 can report a low canvas (ground line at 160 px) or one
\* lower than an obstacle is tall (ground line at 48 px).
\* ------------------------------------------------------------------------
EnvFar ==
  [storage |-> {<<(<<>>), FALSE>>},
   startFrames |-> {0, 1},
   pressFrames |-> {1365},
   releaseFrames |-> {1368},
   resizeFrames |-> {1350},
   phases |-> {0},
   sizes |-> {<<100, 200>>, <<100, 60>>},
   quietDistance |-> VERTICAL_MOVE_START_DISTANCE,
   maxDistance |-> 10420000,
   laterDistance |-> 150000]

InitFar == InitIn(EnvFar)

NextFar == NextIn(EnvFar)

SpecFar == InitFar /\ [][NextFar]_vars

\* ------------------------------------------------------------------------
\* SpecOver: the run of Spec with the inputs around its end.  The obstacle
\* of frame 480 reaches the player in frame 500; a release and a resize,
\* to a higher or to a lower canvas, arrive at frame 501, on the game-over
\* screen when the run ended there.
\* ------------------------------------------------------------------------
EnvOver ==
  [storage |-> {<<(<<>>), FALSE>>},
   startFrames |-> {479},
   pressFrames |-> {488},
   releaseFrames |-> {501},
   resizeFrames |-> {501},
   phases |-> {0},
   sizes |-> {<<120, 350>>, <<100, 200>>},
   quietDistance |-> 0,
   maxDistance |-> 150000,
   laterDistance |-> 50000]

InitOver == InitIn(EnvOver)

NextOver == NextIn(EnvOver)

SpecOver == InitOver /\ [][NextOver]_vars

\* ------------------------------------------------------------------------
\* SpecSweep: a first press after 9279 start-screen frames.  Frame 9280 is
\* on the cadence of the pickups (160), frame 9282 on that of the obstacles
\* (119) and frame 9322 on both (158 and 118): on the 100 px wide canvas
\* the pickup of frame 9280 passes the left threshold in frame 9327 and the
\* obstacle of frame 9282 in frame 9333, each with a younger one of its
\* kind behind it in the array.  The release and the resize arrive late,
\* at frame 9331.
\* ------------------------------------------------------------------------
EnvSweep ==
  [storage |-> {<<(<<>>), FALSE>>},
   startFrames |-> {9279},
   pressFrames |-> {9290},
   releaseFrames |-> {9331},
   resizeFrames |-> {9331},
   phases |-> {0},
   sizes |-> {<<100, 350>>},
   quietDistance |-> 0,
   maxDistance |-> 280000,
   laterDistance |-> 50000]

InitSweep == InitIn(EnvSweep)

NextSweep == NextIn(EnvSweep)

SpecSweep == InitSweep /\ [][NextSweep]_vars

\* ------------------------------------------------------------------------
\* SpecJump: jumps in a run of 111 frames with quiet draws: a press at frame
\* 488 or 496, before the flying obstacle of frame 480 arrives, or at frame
\* 520 or 530, behind it; releases at frames 492 and 525 and a resize at
\* frame 528, while a jump of frame 520 is rising.  SpecJumpFair adds what
\* the host's frame loop guarantees: while a run is followed, draw() is
\* called again.
\* ------------------------------------------------------------------------
EnvJump ==
  [storage |-> {<<(<<>>), FALSE>>},
   startFrames |-> {479},
   pressFrames |-> {488, 496, 520, 530},
   releaseFrames |-> {492, 525},
   resizeFrames |-> {528},
   phases |-> {0},
   sizes |-> Sizes,
   quietDistance |-> 600000,
   maxDistance |-> 600000,
   laterDistance |-> 50000]

InitJump == InitIn(EnvJump)

NextJump == NextIn(EnvJump)

SpecJump == InitJump /\ [][NextJump]_vars

SpecJumpFair == SpecJump /\ WF_vars(DrawRunning(EnvJump))

\* ------------------------------------------------------------------------
\* SpecRace: the run of Spec with a resize and a press that arrive between
\* the same two frames, 497 and 498, in either order; the resize can report
\* the 350 px high canvas, whose ground line is 40 px lower.
\* ------------------------------------------------------------------------
EnvRace ==
  [storage |-> {<<(<<>>), FALSE>>},
   startFrames |-> {479},
   pressFrames |-> {497},
   releaseFrames |-> {503},
   resizeFrames |-> {497},
   phases |-> {0},
   sizes |-> Sizes,
   quietDistance |-> 0,
   maxDistance |-> 150000,
   laterDistance |-> 50000]

InitRace == InitIn(EnvRace)

NextRace == NextIn(EnvRace)

SpecRace == InitRace /\ [][NextRace]_vars

\* ------------------------------------------------------------------------
\* SpecStore: the run of SpecOver started with a high score of 7 in
\* storage, which the read at setup returns or fails to return.
\* ------------------------------------------------------------------------
EnvStore ==
  [EnvOver EXCEPT !.storage = {<<NumToString(7), FALSE>>,
                               <<NumToString(7), TRUE>>}]

InitStore == InitIn(EnvStore)

NextStore == NextIn(EnvStore)

SpecStore == InitStore /\ [][NextStore]_vars

\* ------------------------------------------------------------------------
\* SpecTouch: the collision test on placed boxes.  One obstacle is placed
\* around the player before the first press: on the ground or flying at
\* the heights createObstacle gives, or with its box just under or just
\* over the player's; its left bound on the player's right bound, one
\* frame's move ahead of it, or its right bound one move ahead of the
\* player's left bound.  The first running frame is frame 2.
\* ------------------------------------------------------------------------
EnvTouch ==
  [storage |-> {<<(<<>>), FALSE>>},
   startFrames |-> {1},
   pressFrames |-> {1, 2},
   releaseFrames |-> {3},
   resizeFrames |-> {3},
   phases |-> {0},
   sizes |-> Sizes,
   quietDistance |-> 0,
   maxDistance |-> 20000,
   laterDistance |-> 10000]

\* half the width of an obstacle's bounding box
HalfBox(type) ==
  ((IF type = "NM" THEN (OBSTACLE_SIZE * 11) \div 10 ELSE OBSTACLE_SIZE) * 9)
    \div 20

\* an obstacle that does not oscillate, its box's left bound at left
PlacedObstacle(type, positionType, left, yPos) ==
  [x |-> left + HalfBox(type), y |-> yPos, initialY |-> yPos, type |-> type,
   width |-> IF type = "NM" THEN (OBSTACLE_SIZE * 11) \div 10 ELSE OBSTACLE_SIZE,
   positionType |-> positionType, wobbleOffset |-> 0,
   canMoveVertically |-> FALSE, verticalMoveOffset |-> 0]

\* <<positionType, yPos>>: the two spawn heights, and a box whose top is
\* the resting player's bottom or whose bottom is the resting player's top
TouchHeights(p, gy) ==
  {<<0, gy - OBSTACLE_SIZE \div 2>>,
   <<1, Min(gy - (PLAYER_SIZE * 11) \div 10 - OBSTACLE_SIZE \div 2,
            gy - (OBSTACLE_SIZE * 3) \div 2)>>,
   <<0, PlayerBounds(p).bottom + (OBSTACLE_SIZE * 9) \div 20>>,
   <<0, PlayerBounds(p).top - (OBSTACLE_SIZE * 9) \div 20>>}

TouchLefts(p, type) ==
  {PlayerBounds(p).right,
   PlayerBounds(p).right + INITIAL_GAME_SPEED,
   PlayerBounds(p).left + INITIAL_GAME_SPEED - 2 * HalfBox(type)}

TouchObstacles(p, gy) ==
  {PlacedObstacle(type, h[1], left, h[2]) :
     <<type, h, left>> \in
       {t \in {"NM", "CA"} \X TouchHeights(p, gy)
              \X (TouchLefts(p, "NM") \cup TouchLefts(p, "CA")) :
          t[3] \in TouchLefts(p, t[1])}}

InitTouch ==
  /\ gameStarted = FALSE
  /\ gameOver = FALSE
  /\ frameCount = 0
  /\ score = 0
  /\ distance = 0
  /\ gameSpeed = INITIAL_GAME_SPEED
  /\ width = InitialSize[1] * PX
  /\ groundY = GroundOf(InitialSize[2])
  /\ player = createPlayer(InitialSize[1] * PX, GroundOf(InitialSize[2]))
  /\ isJumping = FALSE
  /\ \E o \in TouchObstacles(createPlayer(InitialSize[1] * PX,
                                            GroundOf(InitialSize[2])),
                               GroundOf(InitialSize[2])) :
       obstacles = <<o>>
  /\ joists = <<>>
  /\ activeParticles = <<>>
  /\ particlePool = <<>>
  /\ \E st \in EnvTouch.storage :
       /\ stored = st[1]
       /\ readFailed = st[2]
       /\ highScore = LoadHighScore(st[1], st[2])
  /\ created = 0
  /\ mid = NoMid
  /\ burst = NoBurst
  /\ used = [jumps |-> 0, resets |-> 0, resizes |-> 0, over |-> 0]
  /\ lastSpawn = NoSpawn

NextTouch == NextIn(EnvTouch)

SpecTouch == InitTouch /\ [][NextTouch]_vars

\* ------------------------------------------------------------------------
\* Properties of the collision pass (checked under Spec)
\* ------------------------------------------------------------------------
\* C1: a running frame in which the player's box overlaps an obstacle ends
\* terminal, and no pickup is processed in that frame: the score and the
\* pickups are the ones the collision pass started from, even when a pickup
\* overlaps the player as well.
C1_ObstacleHitEndsFrame ==
  mid.ran /\ mid.hitObstacles # {} =>
    /\ gameOver
    /\ mid.collected = 0
    /\ score = mid.score
    /\ joists = mid.joists

C1_Witness ==
  mid.ran /\ mid.hitObstacles # {} /\ mid.hitJoists # {} /\ gameOver

\* C2 (checked under SpecDouble): the terminal transition is processed
\* once per run.  A frame that overlaps obstacles, however many, ends
\* terminal with exactly one explosion burst of EXPLOSION_PARTICLES
\* particles and one high-score check; the terminal flag is raised only by
\* such a frame; while the flag is up no collision pass runs and particles,
\* score and high score stay as they are, until the reset.
C2_TerminalOnce ==
  [][/\ mid'.ran /\ mid'.hitObstacles # {} =>
          /\ gameOver'
          /\ mid'.explosions = 1
          /\ mid'.checks = 1
          /\ Len(activeParticles') = mid'.live + EXPLOSION_PARTICLES
          /\ (created' - mid'.created) + (mid'.pooled - Len(particlePool'))
               = EXPLOSION_PARTICLES
     /\ ~gameOver /\ gameOver' => mid'.ran /\ mid'.hitObstacles # {}
     /\ gameOver /\ gameOver' =>
          /\ ~mid'.ran
          /\ UNCHANGED <<activeParticles, particlePool, created, score,
                         highScore, stored>>]_vars

C2_Witness ==
  mid.ran /\ Cardinality(mid.hitObstacles) >= 2 /\ gameOver

\* C3: in a running frame without an obstacle hit in which the player
\* overlaps exactly one pickup, the score grows by 1 for a common pickup and
\* by 5 for a golden one, and the pickups left are the earlier ones without
\* exactly that pickup.
Count(x, a) == Cardinality({i \in 1..Len(a) : a[i] = x})

SameBag(a, b) ==
  /\ Len(a) = Len(b)
  /\ \A i \in 1..Len(a) : Count(a[i], a) = Count(a[i], b)

RemoveAt(a, i) == SubSeq(a, 1, i - 1) \o SubSeq(a, i + 1, Len(a))

C3_CollectOne ==
  mid.ran /\ mid.hitObstacles = {} =>
    \A i \in mid.hitJoists :
      mid.hitJoists = {i} =>
        /\ score = mid.score + (IF mid.joists[i].isGolden THEN 5 ELSE 1)
        /\ SameBag(joists, RemoveAt(mid.joists, i))
        /\ ~gameOver

C3_Witness ==
  /\ mid.ran
  /\ mid.hitObstacles = {}
  /\ \E i \in mid.hitJoists :
       /\ mid.hitJoists = {i}
       /\ mid.joists[i].isGolden
       /\ score = mid.score + 5
       /\ Len(joists) = Len(mid.joists) - 1

\* C4: the high score changes only in the terminal collision step, only
\* when the score is strictly greater, and then becomes the score; every
\* other step leaves it alone; it never decreases; in the terminal state it
\* is at least the score.
C4_HighScore ==
  [][/\ highScore' >= highScore
     /\ highScore' # highScore =>
          /\ ~gameOver /\ gameOver'
          /\ mid'.ran /\ mid'.hitObstacles # {}
          /\ score > highScore
          /\ highScore' = score
          /\ score' = score
     /\ gameOver' => highScore' >= score']_vars

C4_Witness ==
  mid.ran /\ gameOver /\ mid.highScore < highScore /\ highScore = score

\* C5: a failing write in the terminal step leaves the run terminal and the
\* in-memory high score at the value a successful write would have left
\* (only the stored value stays behind); after a failing read at setup the
\* in-memory high score is 0, and the game starts and runs as usual.
C5_StorageFailures ==
  /\ mid.ran /\ mid.writeFails =>
       /\ gameOver
       /\ highScore = Max(mid.highScore, score)
       /\ stored = mid.stored
  /\ readFailed /\ used.resets = 0 /\ ~gameOver =>
       /\ highScore = 0
       /\ ~gameStarted => score = 0 /\ distance = 0 /\ obstacles = <<>>

C5_Witness ==
  readFailed /\ mid.ran /\ mid.writeFails /\ gameOver /\ highScore = 1

\* C6: a restart from the terminal state sets score and distance to 0 and
\* the speed to its base value, empties the obstacles, the pickups and the
\* live particles, clears the terminal flag, and puts the player on the
\* ground at 15% of the canvas width.
C6_Restart ==
  [][used'.resets # used.resets =>
       /\ gameOver /\ ~gameOver'
       /\ score' = 0
       /\ distance' = 0
       /\ gameSpeed' = INITIAL_GAME_SPEED
       /\ obstacles' = <<>>
       /\ joists' = <<>>
       /\ activeParticles' = <<>>
       /\ player' = [x |-> (width * 15) \div 100,
                     y |-> groundY - PLAYER_SIZE \div 2,
                     vy |-> 0, onGround |-> TRUE]]_vars

C6_Witness ==
  /\ used.resets = 1
  /\ frameCount = 0
  /\ ~gameOver
  /\ score = 0
  /\ highScore >= 5
  /\ created > EXPLOSION_PARTICLES
  /\ player = createPlayer(width, groundY)

\* C7: the frame counter is 0 when a run starts, on the first press after
\* the start screen as on every restart.
C7_FrameCountZeroAtRunStart ==
  [][(~gameStarted /\ gameStarted') \/ used'.resets # used.resets =>
       frameCount' = 0]_vars

\* ------------------------------------------------------------------------
\* Properties of the particle pool (checked under SpecLong)
\* ------------------------------------------------------------------------
\* C8: no particle object is live and pooled at once, nor twice in either
\* collection; every pooled particle has active = FALSE and every live one
\* active = TRUE.
C8_LiveAndPoolDisjoint ==
  /\ Ids(activeParticles) \cap Ids(particlePool) = {}
  /\ Cardinality(Ids(activeParticles)) = Len(activeParticles)
  /\ Cardinality(Ids(particlePool)) = Len(particlePool)
  /\ \A i \in 1..Len(particlePool) : ~particlePool[i].active
  /\ \A i \in 1..Len(activeParticles) : activeParticles[i].active

\* the explosion has taken the 15 pooled particles of an expired collection
\* burst and constructed 15 more
C8_Witness ==
  /\ gameOver
  /\ score >= 1
  /\ created = EXPLOSION_PARTICLES
  /\ Len(activeParticles) = EXPLOSION_PARTICLES
  /\ particlePool = <<>>

\* C9 as stated: live particles plus pooled particles never decrease, over
\* any sequence of steps, resets included.
C9_TotalNeverDecreases ==
  [][Len(activeParticles') + Len(particlePool')
       >= Len(activeParticles) + Len(particlePool)]_vars

\* C9, amended: live plus pooled particles never decrease in a step other
\* than the reset; the reset keeps the pool and discards the live ones.
C9_TotalNeverDecreasesButAtReset ==
  [][/\ used'.resets = used.resets =>
          Len(activeParticles') + Len(particlePool')
            >= Len(activeParticles) + Len(particlePool)
     /\ used'.resets # used.resets =>
          /\ particlePool' = particlePool
          /\ activeParticles' = <<>>]_vars

\* after a run that collected a pickup and ended in an explosion, the reset
\* has left fewer particles than were constructed
C9_Witness ==
  /\ used.resets = 1
  /\ highScore >= 1
  /\ created = EXPLOSION_PARTICLES
  /\ Len(activeParticles) + Len(particlePool) < created

\* C10 as stated: once the advance step has run as often as the lifetime of
\* the last burst, with no burst since, none of its particles is live and
\* all are pooled: for the explosion burst as for a collection burst.
BurstRetired ==
  /\ burst.ids \cap Ids(activeParticles) = {}
  /\ burst.ids \subseteq Ids(particlePool)

C10_EveryBurstRetires ==
  burst.ids # {} /\ burst.advanced >= burst.life => BurstRetired

\* C10, amended: a collection burst of COLLECT_PARTICLES particles is live
\* for PARTICLE_LIFETIME - 1 advances and wholly pooled from advance
\* PARTICLE_LIFETIME on; the explosion burst is never advanced while the run
\* is terminal, and the reset discards it: it does not return to the pool.
C10_CollectionBurstRetires ==
  /\ burst.life = PARTICLE_LIFETIME =>
       /\ Cardinality(burst.ids) = COLLECT_PARTICLES
       /\ burst.advanced < PARTICLE_LIFETIME =>
            burst.ids \subseteq Ids(activeParticles)
       /\ burst.advanced >= PARTICLE_LIFETIME =>
            BurstRetired /\ Len(particlePool) >= COLLECT_PARTICLES
  /\ burst.life = EXPLOSION_LIFETIME =>
       /\ Cardinality(burst.ids) = EXPLOSION_PARTICLES
       /\ burst.ids \cap Ids(particlePool) = {}
       /\ gameOver =>
            \A i \in 1..Len(activeParticles) :
              activeParticles[i].id \in burst.ids =>
                activeParticles[i].life = EXPLOSION_LIFETIME
       /\ ~gameOver => burst.ids \cap Ids(activeParticles) = {}

C10_Witness ==
  /\ burst.life = PARTICLE_LIFETIME
  /\ burst.advanced = PARTICLE_LIFETIME
  /\ Len(particlePool) = COLLECT_PARTICLES
  /\ activeParticles = <<>>

\* ------------------------------------------------------------------------
\* Properties of the spawn scheduler, the progression and the obstacles
\* (under SpecFar; C13 under Spec, C15 under SpecDouble).  In a state left
\* by a running frame, the obstacles beyond mid.nObstacles and the pickups of mid.joists beyond mid.nJoists are the
\* ones spawnElements created in that frame.
\* ------------------------------------------------------------------------
NewObstacleCount == Len(obstacles) - mid.nObstacles

NewJoistsOfFrame == SubSeq(mid.joists, mid.nJoists + 1, Len(mid.joists))

GoldenCount(js, golden) ==
  Cardinality({i \in 1..Len(js) : js[i].isGolden = golden})

ObstacleCadence == frameCount % obstacleSpawnRate(mid.distance) = 0

JoistCadence == frameCount % joistSpawnRate(mid.distance) = 0

GoldenCadence == frameCount % goldenJoistSpawnRate(mid.distance) = 0

\* C11 as stated: a running frame creates at most one obstacle, at most one
\* common pickup and at most one golden pickup.
C11_OnePerKind ==
  mid.ran =>
    /\ NewObstacleCount <= 1
    /\ GoldenCount(NewJoistsOfFrame, FALSE) <= 1
    /\ GoldenCount(NewJoistsOfFrame, TRUE) <= 1

\* C11, amended: a running frame creates at most one obstacle and at most
\* one pickup per cadence (two pickups at most, of which at most one is
\* common); two golden pickups are created in a frame only when it is on
\* both pickup cadences, the pickup of the common cadence having drawn
\* golden.
C11_OnePerCadence ==
  mid.ran =>
    /\ NewObstacleCount \in {0, 1}
    /\ Len(NewJoistsOfFrame) <= 2
    /\ GoldenCount(NewJoistsOfFrame, FALSE) <= 1
    /\ Len(NewJoistsOfFrame) = 2 =>
         /\ JoistCadence /\ GoldenCadence
         /\ NewJoistsOfFrame[2].isGolden

C11_Witness ==
  /\ mid.ran
  /\ GoldenCount(NewJoistsOfFrame, TRUE) = 2
  /\ JoistCadence /\ GoldenCadence

\* C12: a running frame creates exactly one obstacle if frameCount is a
\* multiple of the obstacle interval at the distance the spawn step
\* starts from, and none otherwise.
C12_ObstacleOnCadence ==
  mid.ran => NewObstacleCount = (IF ObstacleCadence THEN 1 ELSE 0)

C12_Witness ==
  /\ mid.ran
  /\ ObstacleCadence
  /\ NewObstacleCount = 1
  /\ obstacleSpawnRate(mid.distance) < BASE_OBSTACLE_SPAWN_RATE
  /\ frameCount % BASE_OBSTACLE_SPAWN_RATE # 0

\* C13 as stated: a running frame on the common pickup cadence creates a
\* pickup.
C13_PickupOnEveryCadenceFrame ==
  mid.ran /\ JoistCadence => Len(NewJoistsOfFrame) >= 1

\* C13, amended: a running frame creates a pickup only on the common pickup
\* cadence, where the common step creates one if its random gate passes
\* and none if it fails; off the cadence no pickup is created.
C13_PickupOnlyOnCadence ==
  mid.ran =>
    /\ ~JoistCadence => NewJoistsOfFrame = <<>>
    /\ GoldenCadence => JoistCadence
    /\ JoistCadence /\ ~GoldenCadence => Len(NewJoistsOfFrame) <= 1

C13_Witness ==
  /\ mid.ran
  /\ JoistCadence
  /\ ~GoldenCadence
  /\ Len(NewJoistsOfFrame) = 1
  /\ ~NewJoistsOfFrame[1].isGolden

\* C14 as stated: what a running frame spawns is decided by frameCount and
\* distance alone: every outcome of the spawn step at that frameCount and
\* distance, on any canvas and over all random draws, creates as many
\* obstacles, common pickups and golden pickups as the frame did.
SpawnedKinds(obs, js) ==
  <<Len(obs), GoldenCount(js, FALSE), GoldenCount(js, TRUE)>>

KindsAt(fc, dist) ==
  {SpawnedKinds(o, j) :
     o \in SpawnObstacles(<<>>, fc, dist, InitialSize[1] * PX,
                          GroundOf(InitialSize[2]), {0}),
     j \in SpawnJoists(<<>>, fc, dist, InitialSize[1] * PX,
                       GroundOf(InitialSize[2]), {0})}

KindsOfFrame ==
  <<NewObstacleCount, GoldenCount(NewJoistsOfFrame, FALSE),
    GoldenCount(NewJoistsOfFrame, TRUE)>>

C14_SpawnsDecidedByFrameAndDistance ==
  mid.ran => KindsAt(frameCount, mid.distance) = {KindsOfFrame}

\* C14, amended: the number of obstacles a running frame creates, and the
\* cadences it is on, are decided by frameCount and distance alone; the
\* pickups created are one of the outcomes the random gates and the golden
\* draw allow at that frameCount and distance, and off the pickup cadence
\* there is one outcome only.
C14_CadenceDecidedByFrameAndDistance ==
  mid.ran =>
    /\ KindsOfFrame \in KindsAt(frameCount, mid.distance)
    /\ \A k \in KindsAt(frameCount, mid.distance) : k[1] = NewObstacleCount
    /\ ~JoistCadence => KindsAt(frameCount, mid.distance) = {KindsOfFrame}

\* a frame on the obstacle cadence, after a resize and a jump
C14_Witness ==
  /\ mid.ran
  /\ NewObstacleCount = 1
  /\ used.resizes > 0
  /\ groundY # GroundOf(InitialSize[2])
  /\ Cardinality(KindsAt(frameCount, mid.distance)) = 1

\* C15: two successive obstacle spawns of a run are at least
\* MIN_OBSTACLE_SPAWN_RATE frames apart.
C15_SpawnsFortyFramesApart ==
  lastSpawn.gap = 0 \/ lastSpawn.gap >= MIN_OBSTACLE_SPAWN_RATE

\* rate reductions from 0 up to MaxReductionFrames frames, in half frames
ReductionSamples == {k * 500 : k \in 0..(2 * MaxReductionFrames)}

\* C16: for every distance >= 0 the obstacle interval is an integer in
\* [MIN_OBSTACLE_SPAWN_RATE, BASE_OBSTACLE_SPAWN_RATE] and the pickup
\* interval an integer in [MIN_JOIST_SPAWN_RATE, BASE_JOIST_SPAWN_RATE],
\* and each equals its base value at distance 0.  The formula is checked
\* for every sampled reduction (its range past both floors) and at the
\* distance of every frame run.
C16_IntervalsInRange ==
  /\ rateReduction(0) = 0
  /\ \A red \in ReductionSamples :
        /\ RateFrom(red, BASE_OBSTACLE_SPAWN_RATE, MIN_OBSTACLE_SPAWN_RATE)
             \in MIN_OBSTACLE_SPAWN_RATE..BASE_OBSTACLE_SPAWN_RATE
        /\ RateFrom(red, BASE_JOIST_SPAWN_RATE, MIN_JOIST_SPAWN_RATE)
             \in MIN_JOIST_SPAWN_RATE..BASE_JOIST_SPAWN_RATE
  /\ RateFrom(0, BASE_OBSTACLE_SPAWN_RATE, MIN_OBSTACLE_SPAWN_RATE)
       = BASE_OBSTACLE_SPAWN_RATE
  /\ RateFrom(0, BASE_JOIST_SPAWN_RATE, MIN_JOIST_SPAWN_RATE)
       = BASE_JOIST_SPAWN_RATE
  /\ mid.ran =>
        /\ rateReduction(mid.distance) >= 0
        /\ obstacleSpawnRate(mid.distance)
             \in MIN_OBSTACLE_SPAWN_RATE..BASE_OBSTACLE_SPAWN_RATE
        /\ joistSpawnRate(mid.distance)
             \in MIN_JOIST_SPAWN_RATE..BASE_JOIST_SPAWN_RATE
        /\ mid.distance = 0 =>
              /\ obstacleSpawnRate(mid.distance) = BASE_OBSTACLE_SPAWN_RATE
              /\ joistSpawnRate(mid.distance) = BASE_JOIST_SPAWN_RATE

\* a frame whose intervals are both below their base values, with sampled
\* reductions that reach each floor
C16_Witness ==
  /\ mid.ran
  /\ obstacleSpawnRate(mid.distance) < BASE_OBSTACLE_SPAWN_RATE - 20
  /\ joistSpawnRate(mid.distance) < BASE_JOIST_SPAWN_RATE - 20
  /\ \E red \in ReductionSamples :
        /\ red > (BASE_OBSTACLE_SPAWN_RATE - MIN_OBSTACLE_SPAWN_RATE) * 1000
        /\ red > (BASE_JOIST_SPAWN_RATE - MIN_JOIST_SPAWN_RATE) * 1000
        /\ RateFrom(red, BASE_OBSTACLE_SPAWN_RATE, MIN_OBSTACLE_SPAWN_RATE)
             = MIN_OBSTACLE_SPAWN_RATE
        /\ RateFrom(red, BASE_JOIST_SPAWN_RATE, MIN_JOIST_SPAWN_RATE)
             = MIN_JOIST_SPAWN_RATE

\* C17: the speed is never below INITIAL_GAME_SPEED, equals it while
\* distance is 0, and in a step that is not a reset neither the speed nor
\* the distance decreases.
C17_SpeedAndDistanceMonotone ==
  [][/\ gameSpeed' >= INITIAL_GAME_SPEED
     /\ distance' = 0 => gameSpeed' = INITIAL_GAME_SPEED
     /\ used'.resets = used.resets =>
           /\ gameSpeed' >= gameSpeed
           /\ distance' >= distance]_vars

\* a second run that has gained speed again after the reset
C17_Witness ==
  /\ used.resets = 1
  /\ mid.ran
  /\ distance > 0
  /\ gameSpeed > INITIAL_GAME_SPEED

\* C18: distance changes only in a running frame, by the speed the frame
\* started with (a tenth of it, in metres), and at a reset, which sets it
\* to 0; every other step leaves it unchanged.
C18_DistanceSteps ==
  [][IF used'.resets # used.resets THEN distance' = 0
     ELSE IF frameCount' # frameCount /\ mid'.ran
          THEN /\ mid'.speed = gameSpeed
               /\ mid'.distance = distance
               /\ distance' = distance + gameSpeed
          ELSE distance' = distance]_vars

\* a running frame at more than the base speed has advanced distance
C18_Witness ==
  /\ mid.ran
  /\ mid.speed > INITIAL_GAME_SPEED
  /\ distance = mid.distance + mid.speed
  /\ used.jumps > 0
  /\ used.resizes > 0

\* what createObstacle fixes for the lifetime of an obstacle
CreationFields(o) ==
  <<o.initialY, o.type, o.width, o.positionType, o.wobbleOffset,
    o.canMoveVertically, o.verticalMoveOffset>>

\* the obstacles updated by the last frame, and those it created
UpdatedObstacles == 1..Min(mid.nObstacles, Len(obstacles))

\* the largest subtle hover of a flying obstacle at a speed
HoverAmountAt(speed) == 500 + (speed - INITIAL_GAME_SPEED) \div 10

\* C19: an obstacle created while distance <= VERTICAL_MOVE_START_DISTANCE
\* never oscillates vertically, and the oscillation flag and phase of
\* every obstacle keep the values chosen at creation for its lifetime.
\* In a running frame every obstacle created at such a distance has the
\* flag clear and phase 0; every surviving obstacle is an obstacle of the
\* frame before, moved left by the speed, with its creation fields
\* unchanged; without the flag it stays at its spawn height (within the
\* subtle hover when flying); no other step touches an obstacle, and a
\* reset removes them all.
C19_OscillationFixedAtCreation ==
  [][IF used'.resets # used.resets THEN obstacles' = <<>>
     ELSE IF mid'.ran /\ frameCount' # frameCount
     THEN \A i \in 1..Len(obstacles') :
            LET o == obstacles'[i]
            IN  IF i > mid'.nObstacles
                THEN /\ o.y = o.initialY
                     /\ mid'.distance <= VERTICAL_MOVE_START_DISTANCE =>
                           /\ ~o.canMoveVertically
                           /\ o.verticalMoveOffset = 0
                ELSE /\ \E j \in 1..Len(obstacles) :
                          /\ o.x = obstacles[j].x - gameSpeed
                          /\ CreationFields(o) = CreationFields(obstacles[j])
                     /\ ~o.canMoveVertically =>
                          IF o.positionType = 0 THEN o.y = o.initialY
                          ELSE /\ o.y - o.initialY <= HoverAmountAt(gameSpeed)
                               /\ o.initialY - o.y <= HoverAmountAt(gameSpeed)
     ELSE obstacles' = obstacles]_vars

\* after a run that created every obstacle up to the start distance
\* without the flag, an oscillating obstacle, created past that distance,
\* that updates have carried left and off its spawn height
C19_Witness ==
  /\ mid.ran
  /\ mid.distance > VERTICAL_MOVE_START_DISTANCE
  /\ \E i \in UpdatedObstacles :
        /\ obstacles[i].canMoveVertically
        /\ obstacles[i].y # obstacles[i].initialY
        /\ obstacles[i].x < width

RestingPlayerAt(x, gy) ==
  [x |-> x, y |-> gy - PLAYER_SIZE \div 2, vy |-> 0, onGround |-> TRUE]

\* the spawn height createObstacle gives a flying obstacle at ground line gy
FlyingY(gy) ==
  Min(gy - (PLAYER_SIZE * 11) \div 10 - OBSTACLE_SIZE \div 2,
      gy - (OBSTACLE_SIZE * 3) \div 2)

\* o leaves room beneath it for a player resting on the ground line gy
LeavesGap(o, gy) ==
  ~rectOverlap(PlayerBounds(RestingPlayerAt(o.x, gy)), ObstacleBounds(o))

\* C21: in every reachable state a player resting on the ground does not
\* overlap the bounding box of any aerial (positionType = 1) obstacle,
\* whether or not the obstacle oscillates.
C21_AerialLeavesGap ==
  \A i \in 1..Len(obstacles) :
    obstacles[i].positionType = 1 => LeavesGap(obstacles[i], groundY)

\* C21 (amended): an aerial obstacle that does not oscillate and was
\* created at the current ground line leaves the gap.
C21_SteadyAerialLeavesGap ==
  \A i \in 1..Len(obstacles) :
    /\ obstacles[i].positionType = 1
    /\ ~obstacles[i].canMoveVertically
    /\ obstacles[i].initialY = FlyingY(groundY)
    => LeavesGap(obstacles[i], groundY)

\* the player rests on the ground while an aerial obstacle, moved by updates,
\* is above it, and the run goes on
C21_Witness ==
  /\ mid.ran
  /\ ~gameOver
  /\ player = RestingPlayerAt(player.x, groundY)
  /\ \E i \in UpdatedObstacles :
        /\ obstacles[i].positionType = 1
        /\ ~obstacles[i].canMoveVertically
        /\ obstacles[i].initialY = FlyingY(groundY)
        /\ ObstacleBounds(obstacles[i]).left < PlayerBounds(player).right
        /\ ObstacleBounds(obstacles[i]).right > PlayerBounds(player).left

\* C22: a jump press in the running state takes effect only when the
\* player is grounded: it then sets vy = JUMP_FORCE and clears the
\* grounded flag, leaving the position; a press while the player is
\* airborne changes nothing of the player.
C22_JumpOnlyFromGround ==
  [][used'.jumps # used.jumps =>
       IF player.onGround
       THEN /\ player' = [player EXCEPT !.vy = JUMP_FORCE, !.onGround = FALSE]
            /\ isJumping'
       ELSE /\ player' = player
            /\ isJumping' = isJumping]_vars

\* just after a second press, received while the first jump was in the air
\* and falling with the input released: the player is as the frame left it
C22_Witness ==
  /\ used.jumps = 2
  /\ mid = NoMid
  /\ frameCount \in Env.pressFrames \ (Env.releaseFrames \cup Env.resizeFrames)
  /\ gameStarted
  /\ ~gameOver
  /\ ~player.onGround
  /\ ~isJumping
  /\ player.vy # JUMP_FORCE
  /\ player.y < groundY - PLAYER_SIZE \div 2

\* C23: for a jump whose input is released while the player is still
\* moving upward the upward velocity is damped exactly once; the frames
\* of the jump that follow the release apply only gravity.  So in a
\* running frame that starts with the input released and the player in
\* the air, and leaves the player in the air, vy grows by GRAVITY.
C23_DampedOnce ==
  [][/\ mid'.ran
     /\ frameCount' # frameCount
     /\ ~isJumping
     /\ ~player.onGround
     /\ ~player'.onGround
     => player'.vy = player.vy + GRAVITY]_vars

\* C24: after every player physics update the player is not below the
\* ground line (y <= groundY - size/2), and when the update reaches or
\* passes the ground line the player ends it at y = groundY - size/2 with
\* vy = 0 and the grounded flag set; otherwise the flag is clear.
C24_PlayerStaysAboveGround ==
  [][mid'.ran /\ frameCount' # frameCount =>
       /\ player'.y <= groundY - PLAYER_SIZE \div 2
       /\ IF player.y + player.vy + GRAVITY >= groundY - PLAYER_SIZE \div 2
          THEN player' = RestingPlayerAt(player.x, groundY)
          ELSE ~player'.onGround]_vars

\* the player has landed, after a jump, on a ground line that a resize
\* lowered
C24_Witness ==
  /\ mid.ran
  /\ used.jumps > 0
  /\ groundY > GroundOf(InitialSize[2])
  /\ player = RestingPlayerAt(player.x, groundY)

\* what the simulation holds: the player, the live entities and particles,
\* the pool, the score, the distance and the speed
Simulation ==
  <<player, obstacles, joists, activeParticles, particlePool, score,
    distance, gameSpeed>>

\* C25: while the run is terminal, frame ticks and jump-release inputs
\* change nothing in the simulation: every step between two terminal
\* states other than a resize leaves the player, the live obstacles,
\* pickups and particles, the pool, the score, the distance and the speed
\* as they were.
C25_TerminalFreezes ==
  [][gameOver /\ gameOver' /\ used'.resizes = used.resizes =>
       UNCHANGED Simulation]_vars

\* on the game-over screen, a frame after the collision, just after a
\* release: the explosion and the obstacle are where the collision left
\* them
C25_Witness ==
  /\ gameOver
  /\ used.over > 0
  /\ frameCount \in EnvOver.releaseFrames
  /\ used.resizes = 0
  /\ used.jumps > 0
  /\ ~isJumping
  /\ Len(activeParticles) = EXPLOSION_PARTICLES
  /\ obstacles # <<>>

\* C26: a resize leaves the live obstacles, pickups and particles, the
\* pool, the score, the distance, the speed, the high score and the
\* started and terminal flags unchanged; of the simulation it modifies
\* only the canvas (width and groundY) and the player: x follows the
\* width, and a player left below the new ground line is put on it at
\* rest.
C26_ResizeKeepsEntities ==
  [][used'.resizes # used.resizes =>
       /\ UNCHANGED <<obstacles, joists, activeParticles, particlePool, score,
                      distance, gameSpeed, highScore, gameStarted, gameOver,
                      frameCount, isJumping, stored>>
       /\ player'.x = (width' * 15) \div 100
       /\ IF player.y + PLAYER_SIZE \div 2 > groundY'
          THEN player' = RestingPlayerAt(player'.x, groundY')
          ELSE player' = [player EXCEPT !.x = player'.x]]_vars

\* just after a resize that raised the ground line under the player, with
\* an obstacle and the particles of the explosion live
C26_Witness ==
  /\ used.resizes = 1
  /\ mid = NoMid
  /\ frameCount \in EnvOver.resizeFrames
  /\ groundY < GroundOf(InitialSize[2])
  /\ player = RestingPlayerAt((width * 15) \div 100, groundY)
  /\ obstacles # <<>>
  /\ Len(activeParticles) = EXPLOSION_PARTICLES

\* C27: the game phase follows NotStarted -> Running -> Terminal ->
\* Running -> ...: the terminal flag becomes true only through an
\* obstacle overlap found in a running frame, becomes false only through
\* a press received in the terminal state (the reset), is never set
\* before the start, and a started game never returns to the start
\* screen.
C27_PhaseOrder ==
  [][/\ gameStarted => gameStarted'
     /\ ~gameStarted => ~gameOver /\ ~gameOver'
     /\ gameOver' /\ ~gameOver =>
          /\ gameStarted
          /\ frameCount' = frameCount + 1
          /\ mid'.ran
          /\ mid'.hitObstacles # {}
     /\ gameOver /\ ~gameOver' =>
          /\ gameStarted'
          /\ used'.resets = used.resets + 1]_vars

\* running again, after a start, an obstacle overlap and a reset
C27_Witness ==
  /\ used.resets = 1
  /\ gameStarted
  /\ ~gameOver
  /\ mid.ran
  /\ distance > 0
  /\ created >= EXPLOSION_PARTICLES

\* the boxes with corners on the grid 0..MaxCoord
Boxes ==
  {[left |-> l, right |-> r, top |-> t, bottom |-> b] :
     <<l, r, t, b>> \in
       {c \in (0..MaxCoord) \X (0..MaxCoord) \X (0..MaxCoord) \X (0..MaxCoord) :
          c[1] < c[2] /\ c[3] < c[4]}}

\* the boxes of the player and of obstacle i, as the last frame tested them
PlayerBox == PlayerBounds(player)
ObstacleBox(i) == ObstacleBounds(obstacles[i])

\* C28: bounding-box overlap is symmetric: rectOverlap(A, B) =
\* rectOverlap(B, A), for every pair of boxes of the grid and for the
\* player's box and each obstacle's box that a frame's collision test
\* compared.
C28_OverlapSymmetric ==
  /\ \A a \in Boxes : \A b \in Boxes : rectOverlap(a, b) = rectOverlap(b, a)
  /\ mid.ran =>
        \A i \in 1..Len(obstacles) :
          /\ (i \in mid.hitObstacles) = rectOverlap(ObstacleBox(i), PlayerBox)
          /\ rectOverlap(PlayerBox, ObstacleBox(i))
               = rectOverlap(ObstacleBox(i), PlayerBox)

\* a frame has found the placed obstacle overlapping the player, and the
\* grid holds pairs of boxes that overlap and pairs that do not
C28_Witness ==
  /\ mid.ran
  /\ mid.hitObstacles = {1}
  /\ rectOverlap(ObstacleBox(1), PlayerBox)
  /\ \E a \in Boxes : \E b \in Boxes :
        /\ a # b
        /\ rectOverlap(a, b)
        /\ a.left < b.left
        /\ a.bottom < b.bottom
  /\ \E a \in Boxes : \E b \in Boxes :
        /\ ~rectOverlap(a, b)
        /\ a.right < b.left

\* two boxes that share an edge or a corner line
Touching(a, b) ==
  \/ a.right = b.left
  \/ a.left = b.right
  \/ a.bottom = b.top
  \/ a.top = b.bottom

\* C29: two boxes that share only an edge or a corner are reported as not
\* overlapping by rectOverlap, so an exact edge touch between the player
\* and an obstacle does not end the run.
C29_EdgeTouchIsNoOverlap ==
  /\ \A a \in Boxes : \A b \in Boxes :
        Touching(a, b) => ~rectOverlap(a, b) /\ ~rectOverlap(b, a)
  /\ mid.ran =>
        /\ \A i \in 1..Len(obstacles) :
              Touching(PlayerBox, ObstacleBox(i)) => i \notin mid.hitObstacles
        /\ (\A i \in 1..Len(obstacles) : Touching(PlayerBox, ObstacleBox(i)))
             => ~gameOver

\* a frame has moved the obstacle's left bound exactly onto the player's
\* right bound, at the player's height, and the run goes on
C29_Witness ==
  /\ mid.ran
  /\ ~gameOver
  /\ Len(obstacles) = 1
  /\ ObstacleBox(1).left = PlayerBox.right
  /\ ObstacleBox(1).top < PlayerBox.bottom
  /\ ObstacleBox(1).bottom > PlayerBox.top

\* the obstacle is at the height of the player's box
DirectlyAhead(pb, ob) == ob.top < pb.bottom /\ ob.bottom > pb.top

\* C30: from distance = 0 with the player at rest on the ground and one
\* live obstacle directly ahead whose left bound equals the player's right
\* bound at a frame boundary, the next running frame's collision test
\* makes the run terminal.
C30_ZeroGapEndsRun ==
  [][/\ mid'.ran
     /\ frameCount' = frameCount + 1
     /\ distance = 0
     /\ player = RestingPlayerAt(player.x, groundY)
     /\ Len(obstacles) = 1
     /\ ObstacleBox(1).left = PlayerBox.right
     /\ DirectlyAhead(PlayerBox, ObstacleBox(1))
     => gameOver' /\ mid'.hitObstacles = {1}]_vars

\* the first running frame has moved the obstacle from the player's right
\* bound into the player's box and ended the run
C30_Witness ==
  /\ mid.ran
  /\ mid.distance = 0
  /\ gameOver
  /\ used.jumps = 0
  /\ player = RestingPlayerAt(player.x, groundY)
  /\ mid.hitObstacles = {1}
  /\ ObstacleBox(1).left = PlayerBox.right - INITIAL_GAME_SPEED
  /\ Len(activeParticles) = EXPLOSION_PARTICLES

\* ------------------------------------------------------------------------
\* Properties of the collection pass, the pool, the entity sweeps, the
\* score, the stored high score, the end of a jump and the ground line
\* under a resize.  The collection pass is checked under SpecFar, the pool
\* under SpecLong, the sweeps under SpecSweep, the particles and the score
\* under SpecOver, the stored high score under SpecStore, the end of a
\* jump under SpecJumpFair and the jump after a resize under SpecRace.
\* ------------------------------------------------------------------------
\* the sum of the values of the pickups js[i], i in S
RECURSIVE ValueOf(_, _)
ValueOf(js, S) ==
  IF S = {} THEN 0
  ELSE LET i == CHOOSE k \in S : TRUE
       IN  (IF js[i].isGolden THEN 5 ELSE 1) + ValueOf(js, S \ {i})

\* the pickups js[i], i not in S, in order
RECURSIVE Without(_, _)
Without(js, S) ==
  IF Len(js) = 0 THEN <<>>
  ELSE IF Len(js) \in S
       THEN Without(SubSeq(js, 1, Len(js) - 1), S)
       ELSE Append(Without(SubSeq(js, 1, Len(js) - 1), S), js[Len(js)])

\* C31: in a running frame that does not end the run every live pickup
\* whose box overlaps the player's is collected in that frame, none is
\* skipped and none is scored twice: the score rises by the sum of the
\* values of the overlapping pickups, one burst is started for each, and
\* the pickups left are exactly the others.
C31_CollectAll ==
  mid.ran /\ mid.hitObstacles = {} =>
    /\ ~gameOver
    /\ score = mid.score + ValueOf(mid.joists, mid.hitJoists)
    /\ mid.collected = Cardinality(mid.hitJoists)
    /\ SameBag(joists, Without(mid.joists, mid.hitJoists))
    /\ \A i \in 1..Len(joists) : ~rectOverlap(PlayerBox, JoistBounds(joists[i]))

\* two pickups overlapped the player in one frame and both were collected
C31_Witness ==
  /\ mid.ran
  /\ mid.hitObstacles = {}
  /\ Cardinality(mid.hitJoists) >= 2
  /\ score >= mid.score + 2
  /\ Len(joists) = Len(mid.joists) - Cardinality(mid.hitJoists)

\* the particles the bursts of the last frame asked for, and the pool they
\* started with
BurstSize == COLLECT_PARTICLES * mid.collected + EXPLOSION_PARTICLES * mid.explosions
BurstPool == mid.pooled

C35_AlphaInRange ==
  \A i \in 1..Len(activeParticles) :
    /\ activeParticles[i].alpha >= 0
    /\ activeParticles[i].alpha <= 255 * PARTICLE_LIFETIME
    /\ activeParticles[i].life > 0
    /\ activeParticles[i].active

\* on the game-over screen, frames after the collision: the particles of
\* the explosion, never advanced, next to fading ones of a collection
C35_Witness ==
  /\ gameOver
  /\ used.over = MaxOverFrames
  /\ \E i \in 1..Len(activeParticles) :
        /\ activeParticles[i].life = EXPLOSION_LIFETIME
        /\ activeParticles[i].alpha = 255 * PARTICLE_LIFETIME
  /\ \E i \in 1..Len(activeParticles) :
        /\ activeParticles[i].life < PARTICLE_LIFETIME
        /\ activeParticles[i].alpha = 255 * activeParticles[i].life

\* C36: within a run the score never decreases and changes only in the
\* pickup-collision step of a running frame, by the values of the pickups
\* collected; a frame that ends the run, a jump press or release, a
\* resize and the frames of the other screens leave it unchanged, and
\* only a reset sets it back to 0.
C36_ScoreSteps ==
  [][IF used'.resets # used.resets THEN score' = 0
     ELSE IF mid'.ran /\ frameCount' # frameCount
          THEN /\ mid'.score = score
               /\ score' >= score
               /\ score' = score
                     + (IF mid'.hitObstacles = {}
                        THEN ValueOf(mid'.joists, mid'.hitJoists) ELSE 0)
          ELSE score' = score]_vars

\* a second run starts from score 0 after a run that had scored and ended
C36_Witness ==
  /\ used.resets = 1
  /\ score = 0
  /\ highScore > 0
  /\ ~gameOver
  /\ frameCount = 0


\* the entities of a with their x moved left by v, heights left out
Scrolled(a, v) == [i \in 1..Len(a) |-> [a[i] EXCEPT !.x = @ - v, !.y = 0]]

Flats(a) == Scrolled(a, 0)

\* every element of a occurs in b at least as often as in a
SubBag(a, b) == \A i \in 1..Len(a) : Count(a[i], a) <= Count(a[i], b)

\* C33: in each running frame every obstacle and every pickup that was
\* live at the start of the frame and is still live after the sweep is one
\* of the entities of the frame start with its x decreased by exactly the
\* global speed of that frame, once, also when the sweep removed another
\* entity by swapping the last one into its place; no entity moves at a
\* speed of its own.
C33_ScrollOncePerFrame ==
  [][mid'.ran /\ frameCount' # frameCount =>
       /\ mid'.speed = gameSpeed
       /\ SubBag(Flats(SubSeq(obstacles', 1, mid'.nObstacles)),
                  Scrolled(obstacles, gameSpeed))
       /\ SubBag(Flats(SubSeq(mid'.joists, 1, mid'.nJoists)),
                  Scrolled(joists, gameSpeed))]_vars

\* the older of two obstacles left in the frame, the younger one took its
\* place in the array and a pickup is live
C33_Witness ==
  /\ mid.ran
  /\ mid.obstaclesBefore = 2
  /\ mid.nObstacles = 1
  /\ Len(obstacles) = 1
  /\ obstacles[1].x > player.x
  /\ Len(joists) >= 1

\* C34: after every running frame no live obstacle has x < -2 * size and
\* no live pickup x < -width; the sweep removes exactly the entities whose
\* x passed the left threshold, the collection pass removes exactly the
\* collected pickups (none in the terminal frame) and no obstacle, and
\* outside a running frame only a reset changes the live sets.
C34_LeavesOnlyByThreshold ==
  [][/\ \A i \in 1..Len(obstacles') :
          obstacles'[i].x >= -(OBSTACLE_SIZE * 2)
     /\ \A i \in 1..Len(joists') : joists'[i].x >= -JOIST_WIDTH
     /\ IF used'.resets # used.resets THEN TRUE
        ELSE IF mid'.ran /\ frameCount' # frameCount
        THEN /\ mid'.nObstacles =
                  Cardinality({i \in 1..Len(obstacles) :
                     obstacles[i].x - gameSpeed >= -(OBSTACLE_SIZE * 2)})
             /\ mid'.nJoists =
                  Cardinality({i \in 1..Len(joists) :
                     joists[i].x - gameSpeed >= -JOIST_WIDTH})
             /\ Len(obstacles') >= mid'.nObstacles
             /\ mid'.hitObstacles \subseteq 1..Len(obstacles')
             /\ Len(mid'.joists) >= mid'.nJoists
             /\ Len(joists') = Len(mid'.joists)
                   - (IF mid'.hitObstacles = {}
                      THEN Cardinality(mid'.hitJoists) ELSE 0)
        ELSE obstacles' = obstacles /\ joists' = joists]_vars

\* the older of two pickups left in the frame uncollected, the younger one
\* took its place, and both obstacles are live, the older one behind the
\* left edge
C34_Witness ==
  /\ mid.ran
  /\ mid.joistsBefore = 2
  /\ mid.nJoists = 1
  /\ mid.hitJoists = {}
  /\ Len(joists) = 1
  /\ joists[1].x > player.x
  /\ Len(obstacles) = 2
  /\ \E i \in 1..2 : obstacles[i].x < 0

\* C37: the persisted high score never decreases, over any sequence of
\* startups, runs and terminal collisions, including those in which the
\* read at startup or some writes fail: a write that succeeds stores a
\* value greater than the value that was in storage.
C37_StoredNeverDecreases ==
  [][/\ ParseInt(stored') >= ParseInt(stored)
     /\ stored' # stored => ParseInt(stored') > ParseInt(stored)]_vars

\* the player is in the air in a run that has not ended
Airborne == gameStarted /\ ~gameOver /\ ~player.onGround

\* C38: every jump ends.  While frames keep being drawn, a player in the
\* air is eventually on the ground again or the run has become terminal,
\* whatever presses and releases arrive meanwhile (and also when a resize
\* arrives).
C38_JumpEnds == Airborne ~> (player.onGround \/ gameOver)

\* a frame in which the player lands, after two presses and no resize
C38_Witness ==
  /\ mid.ran
  /\ mid.airborne
  /\ player.onGround
  /\ player.y = groundY - PLAYER_SIZE \div 2
  /\ ~gameOver
  /\ used.jumps >= 2
  /\ used.resizes = 0

\* C39: under any interleaving of resizes, inputs and frames, a jump is
\* initiated only when the player rests on the current ground line
\* (y = groundY - size / 2).
C39_JumpFromGroundLine ==
  [][used'.jumps # used.jumps /\ player' # player =>
       player.y = groundY - PLAYER_SIZE \div 2]_vars

====
